---- MODULE Spec2Model ----
(***************************************************************************)
(* Model of the assessment pipeline of the Parkinson screening app:        *)
(*   - the per-modality classifiers (predict of the spiral, voice and      *)
(*     posture extractors) and the questionnaire score,                    *)
(*   - the aggregator calculateOverallAssessment,                          *)
(*   - the module-level assessment store of services/ml/index.ts with its  *)
(*     asynchronous process operations, getAssessmentData and reset,       *)
(*   - the Assessment page's analyzing flags and the provider's            *)
(*     modelsLoaded state,                                                 *)
(*   - the feature extraction of the voice extractor on a decoded buffer   *)
(*     and of the posture extractor.                                       *)
(* Real numbers are integers in thousandths ("permille"): a feature 0.3 is *)
(* 300, a probability 0.85 is 850, Math.random() is a value in 0..999.     *)
(***************************************************************************)
EXTENDS Integers, Sequences, FiniteSets, Bags, TLC

\* ------------------------------------------------------------------------
\* Bounds of the model
\* ------------------------------------------------------------------------
\* Math.random() in the session specification takes the values
\* (k * 999) \div RandSteps, k in 0..RandSteps (always 0 and 0.999).
RandSteps == 1

\* A softmax output is a vector of four multiples of 1000 \div ProbSteps
\* that sum to ProbSteps * (1000 \div ProbSteps).
ProbSteps == 1

\* Number of process calls started in one behaviour of the session.
MaxCalls == 2

\* Number of resets in one behaviour of the session.
MaxResets == 1

\* The longest buffer of arbitrary samples, and the longest buffer in 25 ms
\* frames.
MaxSamples == 3

MaxFrames == 2

\* ------------------------------------------------------------------------
\* Values
\* ------------------------------------------------------------------------
\* An absent optional field (undefined) and the null return value.
None == [absent |-> TRUE]

Modalities == {"spiral", "voice", "posture", "symptoms"}

Extractors == {"spiral", "voice", "posture"}

Statuses == {"healthy", "mild", "moderate", "severe"}

classLabels == <<"healthy", "mild", "moderate", "severe">>

statusOrder(s) ==
  CASE s = "healthy" -> 0
    [] s = "mild" -> 1
    [] s = "moderate" -> 2
    [] s = "severe" -> 3

Min(a, b) == IF a < b THEN a ELSE b

Max(a, b) == IF a > b THEN a ELSE b

\* Math.round(num / den) for den > 0: the nearest integer, halves rounded up.
Round(num, den) == (2 * num + den) \div (2 * den)

RandSamples == {(k * 999) \div RandSteps : k \in 0..RandSteps}

RandAll == 0..999

RECURSIVE SumSeq(_)
SumSeq(s) == IF s = <<>> THEN 0 ELSE Head(s) + SumSeq(Tail(s))

\* ------------------------------------------------------------------------
\* Per-modality classifiers
\* ------------------------------------------------------------------------
\* probabilities.indexOf(Math.max(...probabilities)), 1-based here.
MaxIndexOf(p) ==
  CHOOSE i \in 1..Len(p) :
    /\ \A j \in 1..Len(p) : p[j] <= p[i]
    /\ \A j \in 1..(i - 1) : p[j] < p[i]

\* A table selected from the first feature (the tremor index) alone.
SpiralProbabilitiesOfTremor(features) ==
  LET riskSum == features[1] * 5
  IN  IF riskSum < 1500 THEN <<850, 100, 30, 20>>
      ELSE IF riskSum < 2500 THEN <<700, 200, 70, 30>>
      ELSE IF riskSum < 3500 THEN <<300, 500, 150, 50>>
      ELSE <<100, 300, 400, 200>>

\* The probability table the spiral classifier selects from the risk.
SpiralProbabilities(features) ==
  LET riskSum == SumSeq(features)   \* overallRisk = riskSum / 5
  IN  IF riskSum < 1500 THEN <<850, 100, 30, 20>>
      ELSE IF riskSum < 2500 THEN <<700, 200, 70, 30>>
      ELSE IF riskSum < 3500 THEN <<300, 500, 150, 50>>
      ELSE <<100, 300, 400, 200>>

\* Score of the spiral classifier before rounding, in thousandths.
SpiralRawScore(status, rand) ==
  CASE status = "healthy" -> 85000 + rand * 10
    [] status = "mild" -> 65000 + rand * 15
    [] status = "moderate" -> 45000 + rand * 15
    [] status = "severe" -> 25000 + rand * 15

\* SpiralFeatureExtractor.predict once the model check has passed.
SpiralPredict(features, rand) ==
  LET probabilities == SpiralProbabilities(features)
      maxIndex == MaxIndexOf(probabilities)
      status == classLabels[maxIndex]
  IN  [score |-> Max(0, Min(100, Round(SpiralRawScore(status, rand), 1000))),
       confidence |-> Round(probabilities[maxIndex] * 100, 1000),
       status |-> status]

\* Score of the voice classifier before rounding, in thousandths:
\* 100 - maxIndex * 25 + (Math.random() * 10 - 5), maxIndex counted from 0
\* in the code and from 1 here.
VoiceRawScore(maxIndex, rand) == 100000 - (maxIndex - 1) * 25000 + (rand * 10 - 5000)

\* VoiceFeatureExtractor.predict on the probabilities the model returned.
VoicePredict(probabilities, rand) ==
  LET maxIndex == MaxIndexOf(probabilities)
  IN  [score |-> Max(0, Min(100, Round(VoiceRawScore(maxIndex, rand), 1000))),
       confidence |-> Round(probabilities[maxIndex] * 100, 1000),
       status |-> classLabels[maxIndex]]

\* Score of the posture classifier before rounding, in thousandths.
PostureRawScore(maxIndex, rand) == 100000 - (maxIndex - 1) * 25000 + (rand * 10 - 5000)

\* PostureFeatureExtractor.predict on the probabilities the model returned.
PosturePredict(probabilities, rand) ==
  LET maxIndex == MaxIndexOf(probabilities)
  IN  [score |-> Max(0, Min(100, Round(PostureRawScore(maxIndex, rand), 1000))),
       confidence |-> Round(probabilities[maxIndex] * 100, 1000),
       status |-> classLabels[maxIndex]]

ProbUnit == 1000 \div ProbSteps

\* The outputs of a softmax layer on the grid of ProbSteps steps.
ProbVectors ==
  {p \in [1..4 -> {k * ProbUnit : k \in 0..ProbSteps}] :
     p[1] + p[2] + p[3] + p[4] = ProbSteps * ProbUnit}

\* ------------------------------------------------------------------------
\* Symptom questionnaire (symptomsAnalysis.ts, analyzeSymptomsData)
\* ------------------------------------------------------------------------
Digits == <<"0", "1", "2", "3", "4", "5", "6", "7", "8", "9">>

IsDigit(c) == \E d \in 1..10 : Digits[d] = c

DigitValue(c) == (CHOOSE d \in 1..10 : Digits[d] = c) - 1

RECURSIVE ParseDigits(_, _)
\* The value of the longest prefix of digits of s, read after acc.
ParseDigits(s, acc) ==
  IF s = <<>> \/ ~IsDigit(Head(s)) THEN acc
  ELSE ParseDigits(Tail(s), acc * 10 + DigitValue(Head(s)))

\* parseInt(s) || 0 for a string s given as a sequence of characters:
\* an optional sign, then the leading digits; NaN (no digit) becomes 0.
ParseIntOrZero(s) ==
  LET neg == s # <<>> /\ Head(s) = "-"
      body == IF s # <<>> /\ Head(s) \in {"-", "+"} THEN Tail(s) ELSE s
      val == ParseDigits(body, 0)
  IN  IF neg THEN 0 - val ELSE val

\* Mutation of AgeRisk: the age limits are inclusive.
AgeRiskInclusive(age) ==
  IF age >= 60 THEN 15
  ELSE IF age >= 50 THEN 10
  ELSE IF age >= 40 THEN 5
  ELSE 0

\* The penalty for the age (lines 24-27).
AgeRisk(age) ==
  IF age > 60 THEN 15
  ELSE IF age > 50 THEN 10
  ELSE IF age > 40 THEN 5
  ELSE 0

\* Mutation of SymptomsRiskScore: sleep issues lower the risk.
SymptomsRiskScoreEasedBySleep(d) ==
  AgeRisk(ParseIntOrZero(d.age))
  + (IF d.familyHistory THEN 20 ELSE 0)
  + d.tremor * 3
  + d.stiffness * 4
  + d.balance * 4
  + (IF d.hasFreeze THEN 15 ELSE 0)
  - (IF d.hasSleepIssues THEN 10 ELSE 0)

\* riskScore after lines 21-39.
SymptomsRiskScore(d) ==
  AgeRisk(ParseIntOrZero(d.age))
  + (IF d.familyHistory THEN 20 ELSE 0)
  + d.tremor * 3
  + d.stiffness * 4
  + d.balance * 4
  + (IF d.hasFreeze THEN 15 ELSE 0)
  + (IF d.hasSleepIssues THEN 10 ELSE 0)

\* The status analyzeSymptomsData gives a score (lines 46-50).
SymptomsStatus(score) ==
  IF score >= 80 THEN "healthy"
  ELSE IF score >= 60 THEN "mild"
  ELSE IF score >= 40 THEN "moderate"
  ELSE "severe"

\* The value analyzeSymptomsData resolves to for a questionnaire d, with
\* rand the value of Math.random() in the confidence.
analyzeSymptomsData(d, rand) ==
  LET rawScore == Max(0, 100 - SymptomsRiskScore(d))
      score == Min(100, rawScore)
  IN  [score |-> Round(score, 1),
       confidence |-> Round(75000 + rand * 15, 1000),
       status |-> SymptomsStatus(score)]

\* ------------------------------------------------------------------------
\* Aggregator (symptomsAnalysis.ts, calculateOverallAssessment)
\* ------------------------------------------------------------------------
ModalityOrder == <<"spiral", "voice", "posture", "symptoms">>

\* availableAssessments: the present results in the order they are pushed.
AvailableAssessments(assessments) ==
  LET present(i) == assessments[ModalityOrder[i]] # None
      idx == SelectSeq(<<1, 2, 3, 4>>, present)
  IN  [i \in 1..Len(idx) |-> assessments[ModalityOrder[idx[i]]]]

\* The status the aggregator gives the mean score (lines 91-95).
OverallStatus(score) ==
  IF score >= 80 THEN "healthy"
  ELSE IF score >= 65 THEN "mild"
  ELSE IF score >= 45 THEN "moderate"
  ELSE "severe"

\* Mutation of RoundedMean: the mean is truncated instead of rounded.
TruncatedMean(total, n) == total \div n

\* Math.round(total / availableAssessments.length) of lines 87-88.
RoundedMean(total, n) == Round(total, n)

RECURSIVE WorstStatus(_, _)
\* availableAssessments.reduce(... , worst) of lines 99-102.
WorstStatus(avail, worst) ==
  IF avail = <<>> THEN worst
  ELSE WorstStatus(Tail(avail),
                   IF statusOrder(Head(avail).status) > statusOrder(worst)
                   THEN Head(avail).status ELSE worst)

\* Mutation of EscalateStatus: the status of the mean score is kept.
EscalateStatusNever(status, worstStatus) == status

\* The worse of the calculated status and the individual worst (105-108).
EscalateStatus(status, worstStatus) ==
  IF statusOrder(worstStatus) > statusOrder(status) THEN worstStatus ELSE status

\* The four recommendation texts (lines 111-125).
Recommendation(status) ==
  CASE status = "healthy" ->
         "Based on the assessment, no significant Parkinson's disease indicators were detected. Continue with regular exercise and health monitoring."
    [] status = "mild" ->
         "Some mild indicators of Parkinson's disease were detected. Consider consulting a neurologist for a professional evaluation. Early intervention can help manage symptoms effectively."
    [] status = "moderate" ->
         "Moderate indicators of Parkinson's disease were detected. We strongly recommend consulting with a neurologist soon for a thorough evaluation and proper diagnosis."
    [] status = "severe" ->
         "Several strong indicators of Parkinson's disease were detected. Please consult with a neurologist as soon as possible for a professional evaluation and treatment options."

\* Mutation of calculateOverallAssessment: the recommendation is chosen
\* before the status is raised to the worst individual status.
calculateOverallAssessmentEarlyText(assessments) ==
  LET avail == AvailableAssessments(assessments)
      n == Len(avail)
      totalScore == SumSeq([i \in 1..n |-> avail[i].score])
      totalConfidence == SumSeq([i \in 1..n |-> avail[i].confidence])
      score == RoundedMean(totalScore, n)
      confidence == RoundedMean(totalConfidence, n)
      status == EscalateStatus(OverallStatus(score), WorstStatus(avail, "healthy"))
  IN  IF n = 0 THEN None
      ELSE [score |-> score,
            confidence |-> confidence,
            status |-> status,
            recommendation |-> Recommendation(OverallStatus(score))]

\* calculateOverallAssessment (lines 65-133).
calculateOverallAssessment(assessments) ==
  LET avail == AvailableAssessments(assessments)
      n == Len(avail)
      totalScore == SumSeq([i \in 1..n |-> avail[i].score])
      totalConfidence == SumSeq([i \in 1..n |-> avail[i].confidence])
      score == RoundedMean(totalScore, n)
      confidence == RoundedMean(totalConfidence, n)
      status == EscalateStatus(OverallStatus(score), WorstStatus(avail, "healthy"))
  IN  IF n = 0 THEN None
      ELSE [score |-> score,
            confidence |-> confidence,
            status |-> status,
            recommendation |-> Recommendation(status)]

\* ------------------------------------------------------------------------
\* Inputs of the session
\* ------------------------------------------------------------------------
\* An image is named by what the extractors measure on it: whether it
\* decodes, the mean Sobel magnitude (edges) and the variance of the
\* normalised grey image, and the three pixel statistics of
\* analyzeImagePattern (edgeVariance and darkGray in thousandths of a grey
\* level, darkFraction in thousandths of the pixels).
CleanSpiral ==
  [name |-> "clean", decodable |-> TRUE, edges |-> 300, variance |-> 60,
   edgeVariance |-> 8000, darkFraction |-> 100, darkGray |-> 40000]

ShakySpiral ==
  [name |-> "shaky", decodable |-> TRUE, edges |-> 900, variance |-> 120,
   edgeVariance |-> 30000, darkFraction |-> 300, darkGray |-> 60000]

CorruptImage ==
  [name |-> "corrupt", decodable |-> FALSE, edges |-> 0, variance |-> 0,
   edgeVariance |-> 0, darkFraction |-> 0, darkGray |-> 0]

Images == {CleanSpiral, ShakySpiral, CorruptImage}

\* A recording whose features are extracted, and one that makes the
\* extraction reject: it does not decode, or its buffer makes a feature throw.
AudioBlobs == {[name |-> "speech", decodable |-> TRUE],
               [name |-> "garbage", decodable |-> FALSE]}

Questionnaire(age, familyHistory, tremor, stiffness, balance, hasFreeze, hasSleepIssues) ==
  [age |-> age, familyHistory |-> familyHistory, tremor |-> tremor,
   stiffness |-> stiffness, balance |-> balance, hasFreeze |-> hasFreeze,
   hasSleepIssues |-> hasSleepIssues]

\* The questionnaire as the form holds it; the age field may be empty.
SymptomsSamples ==
  {Questionnaire(<<"3", "5">>, FALSE, 0, 5, 4, FALSE, FALSE),
   Questionnaire(<<"6", "5">>, TRUE, 8, 7, 6, TRUE, TRUE),
   Questionnaire(<<>>, FALSE, 0, 0, 0, FALSE, FALSE)}

\* What the user may hand to the analysis of modality m on the page.
Inputs(m) ==
  CASE m = "spiral" -> {CleanSpiral, CorruptImage}
    [] m = "posture" -> {CleanSpiral, CorruptImage}
    [] m = "voice" -> AudioBlobs
    [] m = "symptoms" -> SymptomsSamples

\* ------------------------------------------------------------------------
\* Spiral feature extraction (realSpiralAnalysis.ts, lines 97-114, 162-175,
\* 251-274), on the statistics of the image
\* ------------------------------------------------------------------------
analyzeImagePattern(img) ==
  [tremorBoost |-> Min(600, img.edgeVariance \div 50),
   irregularityBoost |-> Min(700, img.darkFraction * 2),
   pressureBoost |-> Min(500, (255000 - img.darkGray) \div 300),
   speedBoost |-> Min(400, img.edgeVariance \div 80),
   smoothnessBoost |-> Min(600, (img.darkFraction * 3) \div 2)]

calculateTremorIndex(edgeData) == Min(900, Max(10, edgeData \div 30))

calculateIrregularityIndex(consistencyData) == Min(900, Max(10, consistencyData \div 20))

calculatePressureIndex(pressureData) == Min(800, Max(10, pressureData \div 25))

calculateSpeedIndex(speedData) == Min(700, Max(10, speedData \div 40))

calculateSmoothnessIndex(smoothnessData) == Min(800, Max(10, smoothnessData \div 30))

\* <<tremor, irregularity, pressure, speed, smoothness>> of a decodable image.
SpiralFeatures(img) ==
  LET boost == analyzeImagePattern(img)
  IN  <<Min(1000, calculateTremorIndex(img.edges) + boost.tremorBoost),
        Min(1000, calculateIrregularityIndex(img.variance) + boost.irregularityBoost),
        Min(1000, calculatePressureIndex(img.variance) + boost.pressureBoost),
        Min(1000, calculateSpeedIndex(img.edges) + boost.speedBoost),
        Min(1000, calculateSmoothnessIndex(img.variance) + boost.smoothnessBoost)>>

\* ------------------------------------------------------------------------
\* The assessment store (services/ml/index.ts)
\* ------------------------------------------------------------------------
VARIABLES
  assessmentData,        \* let assessmentData: AssessmentData
  enhancedModelsLoaded,  \* let enhancedModelsLoaded
  model,                 \* the model field of each extractor
  initState,             \* progress of initializeModels
  modelsLoaded,          \* AssessmentProvider state modelsLoaded
  contextData,           \* AssessmentProvider state assessmentData
  calls,                 \* the bag of process calls in flight of each modality
  promise,               \* how the latest settled call of each modality ended
  analyzing,             \* Assessment page state analyzingSpiral, ...
  page,                  \* the route that is mounted
  ncalls,                \* process calls started so far
  nresets,               \* resets so far
  arg,                   \* argument of the function under study
  ret                    \* its return value

vars == <<assessmentData, enhancedModelsLoaded, model, initState, modelsLoaded,
          contextData, calls, promise, analyzing, page, ncalls, nresets, arg, ret>>

sessionVars == <<assessmentData, enhancedModelsLoaded, model, initState,
                 modelsLoaded, contextData, calls, promise, analyzing, page,
                 ncalls, nresets>>

Fields == Modalities \cup {"overall", "modelInfo", "deviceInfo"}

\* The argument and the return value before a function under study is called.
Unset == [unset |-> TRUE]

\* let assessmentData = {}
EmptyData == [f \in Fields |-> None]

\* The results handed to calculateOverallAssessment (lines 159-164).
ResultsOf(data) ==
  [m \in Modalities |-> IF data[m] = None THEN None ELSE data[m].result]

\* modelAccuracy of a stored record, in tenths of a percent.
ModelAccuracy(m, enhanced) ==
  CASE m = "spiral" -> IF enhanced THEN 942 ELSE 800
    [] m = "voice" -> IF enhanced THEN 927 ELSE 750
    [] m = "posture" -> IF enhanced THEN 918 ELSE 700
    [] m = "symptoms" -> IF enhanced THEN 935 ELSE 850

\* calculateAverageAccuracy, in tenths of a percent.
calculateAverageAccuracy(data) ==
  LET present == {m \in Modalities : data[m] # None}
      accs == [i \in 1..4 |-> IF ModalityOrder[i] \in present
                              THEN data[ModalityOrder[i]].modelAccuracy ELSE 0]
  IN  IF present # {} THEN Round(SumSeq(accs), Cardinality(present)) ELSE 0

\* Mutation of EnhanceOverallConfidence: the cap of 98 is missing.
EnhanceOverallConfidenceUncapped(confidence, enhanced) ==
  IF enhanced THEN confidence + 5 ELSE confidence

\* The confidence of the overall assessment after lines 167-170.
EnhanceOverallConfidence(confidence, enhanced) ==
  IF enhanced THEN Min(98, confidence + 5) ELSE confidence

\* Mutation of getAssessmentData: the adjustment of the confidence is also
\* written into the results of the records.
getAssessmentDataAdjustingRecords(data, enhanced) ==
  LET overallAssessment == calculateOverallAssessment(ResultsOf(data))
  IN  IF (\E m \in Modalities : data[m] # None) /\ overallAssessment # None
      THEN [f \in Fields |->
              CASE f = "overall" ->
                     [overallAssessment EXCEPT
                        !.confidence = EnhanceOverallConfidence(@, enhanced)]
                [] f = "modelInfo" ->
                     [enhancedModelsLoaded |-> enhanced,
                      averageAccuracy |-> calculateAverageAccuracy(data),
                      modelVersion |-> IF enhanced THEN "High-Accuracy v2.0"
                                       ELSE "Standard v1.0"]
                [] f = "deviceInfo" -> [platform |-> "web"]
                [] OTHER ->
                     IF data[f] = None THEN None
                     ELSE [data[f] EXCEPT !.result.confidence =
                             EnhanceOverallConfidence(@, enhanced)]]
      ELSE data

\* Mutation of getAssessmentData: the confidence is adjusted on top of the
\* overall assessment stored by the request before.
getAssessmentDataCumulative(data, enhanced) ==
  LET overallAssessment == calculateOverallAssessment(ResultsOf(data))
      before == IF data["overall"] = None THEN overallAssessment.confidence
                ELSE data["overall"].confidence
  IN  IF (\E m \in Modalities : data[m] # None) /\ overallAssessment # None
      THEN [data EXCEPT
              !["overall"] =
                 [overallAssessment EXCEPT
                    !.confidence = EnhanceOverallConfidence(before, enhanced)],
              !["modelInfo"] =
                 [enhancedModelsLoaded |-> enhanced,
                  averageAccuracy |-> calculateAverageAccuracy(data),
                  modelVersion |-> IF enhanced THEN "High-Accuracy v2.0"
                                   ELSE "Standard v1.0"],
              !["deviceInfo"] = [platform |-> "web"]]
      ELSE data

\* The store after getAssessmentData (lines 151-192).
getAssessmentData(data, enhanced) ==
  LET overallAssessment == calculateOverallAssessment(ResultsOf(data))
  IN  IF (\E m \in Modalities : data[m] # None) /\ overallAssessment # None
      THEN [data EXCEPT
              !["overall"] =
                 [overallAssessment EXCEPT
                    !.confidence = EnhanceOverallConfidence(@, enhanced)],
              !["modelInfo"] =
                 [enhancedModelsLoaded |-> enhanced,
                  averageAccuracy |-> calculateAverageAccuracy(data),
                  modelVersion |-> IF enhanced THEN "High-Accuracy v2.0"
                                   ELSE "Standard v1.0"],
              !["deviceInfo"] = [platform |-> "web"]]
      ELSE data

\* Mutation of StoreRecord: the new fields are merged into an earlier record,
\* whose features are kept.
StoreRecordMerging(data, m, input, features, result, enhanced) ==
  [data EXCEPT ![m] = [input |-> input,
                       result |-> result,
                       modelAccuracy |-> ModelAccuracy(m, enhanced),
                       features |-> IF data[m] = None THEN features
                                    ELSE data[m].features]]

\* The record a process operation stores on success (lines 56-61, 83-88,
\* 110-115, 137-141).
StoreRecord(data, m, input, features, result, enhanced) ==
  [data EXCEPT ![m] = [input |-> input,
                       result |-> result,
                       modelAccuracy |-> ModelAccuracy(m, enhanced),
                       features |-> features]]

\* The confidence of the symptoms result after lines 131-135.
EnhanceSymptomsConfidence(confidence, enhanced) ==
  IF enhanced THEN Min(98, confidence + 10) ELSE confidence

\* Mutation of clearAssessmentData: only the modality records are dropped.
clearModalityRecords(data) ==
  [f \in Fields |-> IF f \in Modalities THEN None ELSE data[f]]

\* The store after clearAssessmentData (lines 223-225).
clearAssessmentData(data) == EmptyData

SessionInit ==
  /\ assessmentData = EmptyData
  /\ enhancedModelsLoaded = FALSE
  /\ model = [e \in Extractors |-> "null"]
  /\ initState = "idle"
  /\ modelsLoaded = FALSE
  /\ contextData = "empty"
  /\ calls = [m \in Modalities |-> EmptyBag]
  /\ promise = [m \in Modalities |-> "none"]
  /\ analyzing = [m \in Modalities |-> FALSE]
  /\ page = "assessment"
  /\ ncalls = 0
  /\ nresets = 0

Init ==
  /\ SessionInit
  /\ arg = Unset
  /\ ret = Unset

\* ---- model loading -----------------------------------------------------
\* AssessmentProvider mounts: loadModels() calls initializeModels, and the
\* effect on modelsLoaded reads the store for the first time.
MountProvider ==
  /\ initState = "idle"
  /\ initState' = "loading"
  /\ assessmentData' = getAssessmentData(assessmentData, enhancedModelsLoaded)
  /\ contextData' = "store"
  /\ UNCHANGED <<enhancedModelsLoaded, model, modelsLoaded, calls, promise,
                 analyzing, ncalls, nresets, page, arg, ret>>

\* loadModel of extractor e settles: the remote model loaded, or the load
\* threw and the fallback network was created.
loadModel(e) ==
  /\ initState = "loading"
  /\ model[e] = "null"
  /\ \E loaded \in {"remote", "fallback"} : model' = [model EXCEPT ![e] = loaded]
  /\ UNCHANGED <<assessmentData, enhancedModelsLoaded, initState, modelsLoaded,
                 contextData, calls, promise, analyzing, ncalls, nresets, page, arg, ret>>

\* Mutation of initializeModels: it returns as soon as one loadModel has
\* settled (Promise.race), and the flag asks for one remote model only.
initializeModelsOnFirstLoad ==
  /\ initState = "loading"
  /\ \E e \in Extractors : model[e] # "null"
  /\ enhancedModelsLoaded' = (\E e \in Extractors : model[e] = "remote")
  /\ initState' = "returned"
  /\ modelsLoaded' = TRUE
  /\ assessmentData' = getAssessmentData(assessmentData, enhancedModelsLoaded')
  /\ contextData' = "store"
  /\ UNCHANGED <<model, calls, promise, analyzing, ncalls, nresets, page, arg, ret>>

\* Promise.all of initializeModels resolves; initializeModels returns true,
\* the provider sets modelsLoaded and its effect reads the store again.
initializeModels ==
  /\ initState = "loading"
  /\ \A e \in Extractors : model[e] # "null"
  /\ enhancedModelsLoaded' = (\A e \in Extractors : model[e] = "remote")
  /\ initState' = "returned"
  /\ modelsLoaded' = TRUE
  /\ assessmentData' = getAssessmentData(assessmentData, enhancedModelsLoaded')
  /\ contextData' = "store"
  /\ UNCHANGED <<model, calls, promise, analyzing, ncalls, nresets, page, arg, ret>>

\* ---- process operations ------------------------------------------------
\* The first await of the process operation of modality m.
FirstStage(m) ==
  CASE m = "spiral" -> "preprocess"
    [] m = "posture" -> "preprocess"
    [] m = "voice" -> "decode"
    [] m = "symptoms" -> "timer"

\* processSpiralDrawing / processVoiceRecording / processPostureImage /
\* processSymptoms is called and suspends at its first await; mounted tells
\* whether the page instance that awaits the call is still mounted.
ProcessCall(m, input) ==
  /\ ncalls < MaxCalls
  /\ calls' = [calls EXCEPT ![m] =
                 @ (+) SetToBag({[input |-> input, stage |-> FirstStage(m),
                                  mounted |-> TRUE]})]
  /\ ncalls' = ncalls + 1
  /\ UNCHANGED <<assessmentData, enhancedModelsLoaded, model, initState,
                 modelsLoaded, contextData, promise, page, nresets, arg, ret>>

\* The guard of the page's analyze handler on its input (!spiralImage,
\* !voiceRecording || audioChunks.length === 0, !postureImage, !age).
PageInputOk(m, input) ==
  IF m = "symptoms" THEN input.age # <<>> ELSE TRUE

\* analyzeSpiralDrawing / analyzeVoiceRecording / analyzePostureImage /
\* analyzeSymptomsData of the Assessment page, up to the await; the button
\* is disabled while analyzing or while the models are not loaded.
AnalyzeClick(m, input) ==
  /\ page = "assessment"
  /\ PageInputOk(m, input)
  /\ modelsLoaded
  /\ ~analyzing[m]
  /\ analyzing' = [analyzing EXCEPT ![m] = TRUE]
  /\ ProcessCall(m, input)

\* The bag B of calls once the page instance that awaits them has unmounted.
Unmounted(B) ==
  [d \in {[c EXCEPT !.mounted = FALSE] : c \in BagToSet(B)} |->
     CopiesIn(d, B) + CopiesIn([d EXCEPT !.mounted = TRUE], B)]

\* navigateToResults of the Assessment page ("View Results Dashboard", never
\* disabled): the page unmounts and its state is dropped; the calls it
\* awaits go on, and their finally blocks act on the unmounted instance.
navigateToResults ==
  /\ page = "assessment"
  /\ page' = "results"
  /\ analyzing' = [m \in Modalities |-> FALSE]
  /\ calls' = [m \in Modalities |-> Unmounted(calls[m])]
  /\ UNCHANGED <<assessmentData, enhancedModelsLoaded, model, initState,
                 modelsLoaded, contextData, promise, ncalls, nresets, arg, ret>>

\* "Take Another Assessment" of the Results page: a new instance of the
\* Assessment page mounts with its initial state.
takeAnotherAssessment ==
  /\ page = "results"
  /\ page' = "assessment"
  /\ UNCHANGED <<assessmentData, enhancedModelsLoaded, model, initState,
                 modelsLoaded, contextData, calls, promise, analyzing, ncalls,
                 nresets, arg, ret>>

\* The call c of m moves on to its next await.
Advance(m, c, stage) ==
  /\ calls' = [calls EXCEPT ![m] =
                 (@ (-) SetToBag({c})) (+) SetToBag({[c EXCEPT !.stage = stage]})]
  /\ UNCHANGED <<assessmentData, enhancedModelsLoaded, model, initState,
                 modelsLoaded, contextData, promise, analyzing, page, ncalls,
                 nresets, arg, ret>>

\* The analyzing flag of m after the finally block of the handler that
\* awaits c has run.
AfterFinally(m, c) ==
  IF c.mounted THEN [analyzing EXCEPT ![m] = FALSE] ELSE analyzing

\* Mutation of Reject: a failed call drops the record of its modality.
RejectDroppingRecord(m, c) ==
  /\ calls' = [calls EXCEPT ![m] = @ (-) SetToBag({c})]
  /\ promise' = [promise EXCEPT ![m] = "rejected"]
  /\ analyzing' = AfterFinally(m, c)
  /\ assessmentData' = [assessmentData EXCEPT ![m] = None]
  /\ UNCHANGED <<enhancedModelsLoaded, model, initState, modelsLoaded,
                 contextData, page, ncalls, nresets, arg, ret>>

\* The call c of m throws: the catch block logs and rethrows (lines 65-68),
\* and the page's finally block clears its analyzing flag.
Reject(m, c) ==
  /\ calls' = [calls EXCEPT ![m] = @ (-) SetToBag({c})]
  /\ promise' = [promise EXCEPT ![m] = "rejected"]
  /\ analyzing' = AfterFinally(m, c)
  /\ UNCHANGED <<assessmentData, enhancedModelsLoaded, model, initState,
                 modelsLoaded, contextData, page, ncalls, nresets, arg, ret>>

\* The call c of m stores its record and returns the result; the page's
\* finally block clears its analyzing flag.
Fulfil(m, c, features, result) ==
  /\ assessmentData' = StoreRecord(assessmentData, m, c.input, features,
                                   result, enhancedModelsLoaded)
  /\ calls' = [calls EXCEPT ![m] = @ (-) SetToBag({c})]
  /\ promise' = [promise EXCEPT ![m] = "fulfilled"]
  /\ analyzing' = AfterFinally(m, c)
  /\ UNCHANGED <<enhancedModelsLoaded, model, initState, modelsLoaded,
                 contextData, page, ncalls, nresets, arg, ret>>

\* What model.predict does with the feature tensor: the fallback voice
\* network takes the 13 MFCCs, the fallback posture network expects a
\* 224x224x3 image and throws on the 6 features, a remote model is unknown.
ModelAccepts(e, state) ==
  CASE state = "null" -> {FALSE}
    [] state = "fallback" -> IF e = "posture" THEN {FALSE} ELSE {TRUE}
    [] state = "remote" -> BOOLEAN

\* The calls of m in flight that wait at stage.
CallsAt(m, stage) == {c \in BagToSet(calls[m]) : c.stage = stage}

\* preprocessImage of the spiral extractor resolves: img.onload fired. No
\* handler is registered for an image that does not decode.
SpiralImageLoaded ==
  \E c \in CallsAt("spiral", "preprocess") :
    /\ c.input.decodable
    /\ Advance("spiral", c, "pattern")

\* analyzeImagePattern resolves, then predict and the store (lines 54-64).
SpiralFinish ==
  \E c \in CallsAt("spiral", "pattern") :
    IF model["spiral"] = "null"
    THEN Reject("spiral", c)
    ELSE \E rand \in RandSamples :
           LET features == SpiralFeatures(c.input)
           IN  Fulfil("spiral", c, features, SpiralPredict(features, rand))

\* decodeAudioData settles; on success the features are computed and
\* predict runs up to its await of prediction.data().
VoiceDecoded ==
  \E c \in CallsAt("voice", "decode") :
    \E accepts \in ModelAccepts("voice", model["voice"]) :
      IF c.input.decodable /\ accepts
      THEN Advance("voice", c, "data")
      ELSE Reject("voice", c)

\* prediction.data() resolves, then the store (lines 83-91).
VoiceFinish ==
  \E c \in CallsAt("voice", "data") :
    \E probabilities \in ProbVectors, rand \in RandSamples :
      Fulfil("voice", c, [source |-> c.input.name],
             VoicePredict(probabilities, rand))

\* preprocessImage of the posture extractor resolves; the keypoints and
\* features are computed and predict runs up to its await.
PostureImageLoaded ==
  \E c \in CallsAt("posture", "preprocess") :
    /\ c.input.decodable
    /\ \E accepts \in ModelAccepts("posture", model["posture"]) :
         IF accepts THEN Advance("posture", c, "data") ELSE Reject("posture", c)

\* prediction.data() resolves, then the store (lines 110-118).
PostureFinish ==
  \E c \in CallsAt("posture", "data") :
    \E probabilities \in ProbVectors, rand \in RandSamples :
      Fulfil("posture", c, [source |-> c.input.name],
             PosturePredict(probabilities, rand))

\* The 1000 ms timer of analyzeSymptomsData fires, then processSymptoms
\* adjusts the confidence and stores (lines 129-143).
SymptomsFinish ==
  \E c \in CallsAt("symptoms", "timer") :
    \E rand \in RandSamples :
      LET result == analyzeSymptomsData(c.input, rand)
      IN  Fulfil("symptoms", c, None,
                 [result EXCEPT !.confidence =
                    EnhanceSymptomsConfidence(@, enhancedModelsLoaded)])

\* ---- reading and resetting ---------------------------------------------
\* The results view asks for the assessment data again.
refreshResults ==
  /\ initState # "idle"
  /\ assessmentData' = getAssessmentData(assessmentData, enhancedModelsLoaded)
  /\ contextData' = "store"
  /\ UNCHANGED <<enhancedModelsLoaded, model, initState, modelsLoaded, calls,
                 promise, analyzing, ncalls, nresets, page, arg, ret>>

\* Mutation of resetAssessment: the store of the service is not cleared.
resetContextOnly ==
  /\ initState # "idle"
  /\ nresets < MaxResets
  /\ contextData' = "empty"
  /\ nresets' = nresets + 1
  /\ UNCHANGED <<assessmentData, enhancedModelsLoaded, model, initState,
                 modelsLoaded, calls, promise, analyzing, ncalls, page, arg, ret>>

\* resetAssessment of the provider: clearAssessmentData, setAssessmentData({}).
resetAssessment ==
  /\ initState # "idle"
  /\ nresets < MaxResets
  /\ assessmentData' = clearAssessmentData(assessmentData)
  /\ contextData' = "empty"
  /\ nresets' = nresets + 1
  /\ UNCHANGED <<enhancedModelsLoaded, model, initState, modelsLoaded, calls,
                 promise, analyzing, ncalls, page, arg, ret>>

Next ==
  \/ MountProvider
  \/ \E e \in Extractors : loadModel(e)
  \/ initializeModels
  \/ \E m \in Modalities : \E input \in Inputs(m) : AnalyzeClick(m, input)
  \/ navigateToResults
  \/ takeAnotherAssessment
  \/ SpiralImageLoaded
  \/ SpiralFinish
  \/ VoiceDecoded
  \/ VoiceFinish
  \/ PostureImageLoaded
  \/ PostureFinish
  \/ SymptomsFinish
  \/ refreshResults
  \/ resetAssessment

Spec == Init /\ [][Next]_vars

TypeOK ==
  /\ \A m \in Modalities : promise[m] \in {"none", "fulfilled", "rejected"}
  /\ page \in {"assessment", "results"}
  /\ ncalls \in 0..MaxCalls

\* The started calls that wait for an event of the browser make progress;
\* clicks, refreshes and resets are up to the user.
FairSpec ==
  /\ Spec
  /\ WF_vars(MountProvider)
  /\ \A e \in Extractors : WF_vars(loadModel(e))
  /\ WF_vars(initializeModels)
  /\ WF_vars(SpiralImageLoaded)
  /\ WF_vars(SpiralFinish)
  /\ WF_vars(VoiceDecoded)
  /\ WF_vars(VoiceFinish)
  /\ WF_vars(PostureImageLoaded)
  /\ WF_vars(PostureFinish)
  /\ WF_vars(SymptomsFinish)

\* ------------------------------------------------------------------------
\* The aggregator on arbitrary result sets
\* ------------------------------------------------------------------------
ScoreSamples == {0, 44, 65, 100}

ConfidenceSamples == {80}

ResultSamples ==
  [score : ScoreSamples, confidence : ConfidenceSamples, status : Statuses]

ResultSets == [Modalities -> ResultSamples \cup {None}]

InitAggregate ==
  /\ SessionInit
  /\ arg \in ResultSets
  /\ ret = Unset

AggregateCall ==
  /\ ret = Unset
  /\ ret' = [value |-> calculateOverallAssessment(arg)]
  /\ UNCHANGED <<sessionVars, arg>>

NextAggregate == AggregateCall

SpecAggregate == InitAggregate /\ [][NextAggregate]_vars

\* ------------------------------------------------------------------------
\* The three classifiers on arbitrary features, probabilities and jitter
\* ------------------------------------------------------------------------
FeatureLevels == {0, 299, 300, 499, 500, 699, 700, 1000}

\* Vectors whose features differ from one another, on both sides of each
\* threshold of the mean risk.
MixedFeatureVectors ==
  {<<1000, 0, 0, 0, 499>>, <<0, 1000, 500, 0, 0>>, <<0, 0, 499, 1000, 1000>>,
   <<500, 0, 1000, 0, 1000>>, <<1000, 1000, 1000, 499, 0>>, <<0, 500, 1000, 1000, 1000>>}

FeatureVectors ==
  {<<v, v, v, v, v>> : v \in FeatureLevels}
    \cup MixedFeatureVectors
    \cup {SpiralFeatures(img) : img \in {i \in Images : i.decodable}}

PredictProbVectors ==
  {p \in [1..4 -> {0, 250, 500, 750, 1000}] : p[1] + p[2] + p[3] + p[4] = 1000}

PredictInputs ==
  [classifier : {"spiral"}, input : FeatureVectors, rand : RandAll]
    \cup [classifier : {"voice", "posture"}, input : PredictProbVectors, rand : RandAll]

InitPredict ==
  /\ SessionInit
  /\ arg \in PredictInputs
  /\ ret = Unset

SpiralPredictCall ==
  /\ ret = Unset
  /\ arg.classifier = "spiral"
  /\ ret' = [value |-> SpiralPredict(arg.input, arg.rand)]
  /\ UNCHANGED <<sessionVars, arg>>

VoicePredictCall ==
  /\ ret = Unset
  /\ arg.classifier = "voice"
  /\ ret' = [value |-> VoicePredict(arg.input, arg.rand)]
  /\ UNCHANGED <<sessionVars, arg>>

PosturePredictCall ==
  /\ ret = Unset
  /\ arg.classifier = "posture"
  /\ ret' = [value |-> PosturePredict(arg.input, arg.rand)]
  /\ UNCHANGED <<sessionVars, arg>>

NextPredict ==
  \/ SpiralPredictCall
  \/ VoicePredictCall
  \/ PosturePredictCall

SpecPredict == InitPredict /\ [][NextPredict]_vars

\* ------------------------------------------------------------------------
\* The questionnaire score on every questionnaire in range
\* ------------------------------------------------------------------------
AgeStrings ==
  {<<>>, <<"9">>, <<"4", "0">>, <<"4", "1">>, <<"5", "0">>, <<"5", "1">>,
   <<"6", "0">>, <<"6", "1">>, <<"6", "5">>, <<"6", ".", "5">>,
   <<"-", "7", "0">>, <<"1", "0", "0">>}

SliderValues == 0..10

Questionnaires ==
  [age : AgeStrings, familyHistory : BOOLEAN, tremor : SliderValues,
   stiffness : SliderValues, balance : SliderValues, hasFreeze : BOOLEAN,
   hasSleepIssues : BOOLEAN]

InitSymptoms ==
  /\ SessionInit
  /\ arg \in Questionnaires
  /\ ret = Unset

AnalyzeSymptomsCall ==
  /\ ret = Unset
  /\ \E rand \in RandSamples : ret' = [value |-> analyzeSymptomsData(arg, rand)]
  /\ UNCHANGED <<sessionVars, arg>>

NextSymptoms == AnalyzeSymptomsCall

SpecSymptoms == InitSymptoms /\ [][NextSymptoms]_vars

\* ------------------------------------------------------------------------
\* The overall assessment of a single questionnaire result of every score
\* ------------------------------------------------------------------------
InitThreshold ==
  /\ SessionInit
  /\ arg \in [score : 0..100]
  /\ ret = Unset

\* The result analyzeSymptomsData returns for a score, and the overall
\* assessment calculateOverallAssessment computes from it alone.
SingleResultOverall ==
  /\ ret = Unset
  /\ LET result == [score |-> arg.score, confidence |-> 80,
                    status |-> SymptomsStatus(arg.score)]
     IN  ret' = [result |-> result,
                 thresholdStatus |-> OverallStatus(arg.score),
                 overall |-> calculateOverallAssessment(
                               [m \in Modalities |->
                                  IF m = "symptoms" THEN result ELSE None])]
  /\ UNCHANGED <<sessionVars, arg>>

NextThreshold == SingleResultOverall

SpecThreshold == InitThreshold /\ [][NextThreshold]_vars

\* ------------------------------------------------------------------------
\* A second submission of a modality, from the moment the call is in flight
\* ------------------------------------------------------------------------
\* The features a process operation stores for an input of modality m.
FeaturesOf(m, input) ==
  CASE m = "spiral" -> SpiralFeatures(input)
    [] m \in {"voice", "posture"} -> [source |-> input.name]
    [] m = "symptoms" -> None

\* A record an earlier submission of modality m has stored.
EarlierRecord(m, enhanced) ==
  LET input == CASE m = "spiral" -> CleanSpiral
                 [] m = "posture" -> CleanSpiral
                 [] m = "voice" -> [name |-> "speech", decodable |-> TRUE]
                 [] m = "symptoms" ->
                      Questionnaire(<<"3", "5">>, FALSE, 0, 5, 4, FALSE, FALSE)
      result == CASE m = "spiral" -> SpiralPredict(SpiralFeatures(input), 0)
                  [] m = "voice" -> VoicePredict(<<0, 0, 0, 1000>>, 0)
                  [] m = "posture" -> PosturePredict(<<0, 1000, 0, 0>>, 999)
                  [] m = "symptoms" ->
                       [analyzeSymptomsData(input, 0) EXCEPT !.confidence =
                          EnhanceSymptomsConfidence(@, enhanced)]
  IN  StoreRecord(EmptyData, m, input, FeaturesOf(m, input), result, enhanced)[m]

\* The stores earlier submissions have left, read by getAssessmentData or not.
EarlierStores(enhanced) ==
  LET raw == {[f \in Fields |->
                 IF f \in S THEN EarlierRecord(f, enhanced) ELSE None] :
              S \in SUBSET Modalities}
  IN  raw \cup {getAssessmentData(data, enhanced) : data \in raw}

\* The inputs of the second submission.
ResubmitInputs(m) ==
  CASE m \in {"spiral", "posture"} -> {CleanSpiral, ShakySpiral}
    [] m = "voice" -> {[name |-> "speech", decodable |-> TRUE],
                       [name |-> "vowel", decodable |-> TRUE]}
    [] m = "symptoms" -> {s \in SymptomsSamples : PageInputOk("symptoms", s)}

\* The models are loaded, earlier submissions have stored their records and
\* the page has just started one more call.
InitResubmit ==
  \E loaded \in [Extractors -> {"remote", "fallback"}], m \in Modalities :
    \E input \in ResubmitInputs(m) :
      LET enhanced == \A e \in Extractors : loaded[e] = "remote"
      IN  \E earlier \in EarlierStores(enhanced) :
            /\ model = loaded
            /\ enhancedModelsLoaded = enhanced
            /\ initState = "returned"
            /\ modelsLoaded = TRUE
            /\ contextData = "store"
            /\ assessmentData = earlier
            /\ calls = [k \in Modalities |->
                          IF k = m
                          THEN SetToBag({[input |-> input, stage |-> FirstStage(m),
                                          mounted |-> TRUE]})
                          ELSE EmptyBag]
            /\ promise = [k \in Modalities |-> "none"]
            /\ analyzing = [k \in Modalities |-> k = m]
            /\ page = "assessment"
            /\ ncalls = MaxCalls
            /\ nresets = 0
            /\ arg = [m |-> m, input |-> input, earlier |-> earlier]
            /\ ret = Unset

NextResubmit ==
  \/ SpiralImageLoaded
  \/ SpiralFinish
  \/ VoiceDecoded
  \/ VoiceFinish
  \/ PostureImageLoaded
  \/ PostureFinish
  \/ SymptomsFinish

SpecResubmit == InitResubmit /\ [][NextResubmit]_vars

\* ------------------------------------------------------------------------
\* A process operation called while the models load
\* ------------------------------------------------------------------------
\* A process operation of the service is called by code other than the
\* page, which waits for modelsLoaded; arg keeps the modality, the input
\* and whether the model of the modality was loaded at the call. The
\* questionnaire has no model.
ServiceCall(m, input) ==
  /\ arg = Unset
  /\ arg' = [modality |-> m, input |-> input,
             loaded |-> IF m \in Extractors THEN model[m] # "null" ELSE TRUE]
  /\ calls' = [calls EXCEPT ![m] =
                 @ (+) SetToBag({[input |-> input, stage |-> FirstStage(m),
                                  mounted |-> FALSE]})]
  /\ ncalls' = ncalls + 1
  /\ UNCHANGED <<assessmentData, enhancedModelsLoaded, model, initState,
                 modelsLoaded, contextData, promise, analyzing, page, nresets,
                 ret>>

InitService ==
  /\ SessionInit
  /\ arg = Unset
  /\ ret = Unset

NextService ==
  \/ MountProvider
  \/ \E e \in Extractors : loadModel(e)
  \/ initializeModels
  \/ \E m \in Modalities : \E input \in Inputs(m) : ServiceCall(m, input)
  \/ SpiralImageLoaded
  \/ SpiralFinish
  \/ VoiceDecoded
  \/ VoiceFinish
  \/ PostureImageLoaded
  \/ PostureFinish
  \/ SymptomsFinish

SpecService == InitService /\ [][NextService]_vars

\* ------------------------------------------------------------------------
\* The voice extractor on a decoded buffer (realVoiceAnalysis.ts)
\* ------------------------------------------------------------------------
\* Samples are in hundredths of full scale, correlations in ten-thousandths,
\* ratios in thousandths and frequencies in hertz.

\* A JavaScript number: a finite value, or NaN or Infinity after a division
\* by zero.
Num(x) == [finite |-> TRUE, value |-> x]

NotFinite == [finite |-> FALSE, value |-> 0]

\* A call that returned v, and a call that threw error.
Returned(v) == [thrown |-> "none", value |-> v]

Thrown(error) == [thrown |-> error]

Abs(x) == IF x < 0 THEN -x ELSE x

SetMax(S) == CHOOSE x \in S : \A y \in S : y <= x

SetMin(S) == CHOOSE x \in S : \A y \in S : x <= y

RECURSIVE SumRange(_, _, _)
\* The sum of f[lo], ..., f[hi] over the arguments f is defined on.
SumRange(f, lo, hi) ==
  IF lo > hi THEN 0
  ELSE IF lo = hi THEN (IF lo \in DOMAIN f THEN f[lo] ELSE 0)
  ELSE LET mid == (lo + hi) \div 2
       IN  SumRange(f, lo, mid) + SumRange(f, mid + 1, hi)

\* The sum of the values of a function defined on numbers of 1..n.
SumUpTo(f, n) == SumRange(f, 1, n)

RECURSIVE SqrtBetween(_, _, _)
SqrtBetween(n, lo, hi) ==
  IF lo = hi THEN lo
  ELSE LET mid == (lo + hi + 1) \div 2
       IN  IF mid * mid <= n THEN SqrtBetween(n, mid, hi)
           ELSE SqrtBetween(n, lo, mid - 1)

\* Math.sqrt, rounded down.
Sqrt(n) == SqrtBetween(n, 0, Min(n, 46340))

\* audioData.slice(from, to) with the 0-based bounds of the code.
Slice(s, from, to) == SubSeq(s, from + 1, Min(to, Len(s)))

\* The positions of the samples that are not zero.
Support(signal) == {n \in 1..Len(signal) : signal[n] # 0}

\* Math.sin of a / (4 * N) of a turn for 0 <= a < 4 * N, in hundredths
\* (Bhaskara's approximation, exact at the quarter turns).
SinQuarter(a, N) ==
  LET h == IF a <= 2 * N THEN a ELSE a - 2 * N
      p == h * (2 * N - h)
      s == Round(400 * p, 5 * N * N - p)
  IN  IF a <= 2 * N THEN s ELSE -s

CosQuarter(a, N) == SinQuarter((a + N) % (4 * N), N)

\* new Array(N / 2) at line 125 throws a RangeError when N / 2 is not an
\* integer.
fftThrows(signal) == Len(signal) % 2 = 1

\* spectrum[k] of lines 127-138; angle = -2 * PI * k * n / N. A sample that
\* is zero adds nothing to either sum.
Magnitude(signal, support, k) ==
  LET N == Len(signal)
      real == SumUpTo([n \in support |->
                 signal[n] * CosQuarter(4 * ((k * (n - 1)) % N), N)], N)
      imag == SumUpTo([n \in support |->
                 -signal[n] * SinQuarter(4 * ((k * (n - 1)) % N), N)], N)
      re == Round(real, 100)
      im == Round(imag, 100)
  IN  Sqrt(re * re + im * im)

\* fft (lines 122-141) of a signal with an even number of samples.
fft(signal) ==
  LET support == Support(signal)
      N == Len(signal)
  IN  SubSeq([k \in 1..(N \div 2) |-> Magnitude(signal, support, k - 1)],
             1, N \div 2)

frameSize == 2048

numMfcc == 13

\* extractMFCC (lines 93-120) of a buffer of at most frameSize samples: the
\* frame loop at line 102 does not run and the 13 averages keep their
\* initial 0.
extractMFCC(audioData, sampleRate) == [i \in 1..numMfcc |-> 0]

\* Lines 317, 318 and 321 (and 203).
minPeriodOf(sampleRate) == sampleRate \div 500

maxPeriodOf(sampleRate) == sampleRate \div 50

frameSize25ms(sampleRate) == (sampleRate * 25) \div 1000

\* The autocorrelation of lines 329-332.
Correlation(frame, period) ==
  SumUpTo([i \in {j \in Support(frame) : j + period <= Len(frame)} |->
             frame[i] * frame[i + period]], Len(frame))

\* The period search of lines 325-338: the first period with the largest
\* correlation above 0, minPeriod when there is none.
BestPeriod(frame, sampleRate) ==
  LET candidates == {p \in minPeriodOf(sampleRate)..(maxPeriodOf(sampleRate) - 1) :
                       2 * p < Len(frame)}
      corr == [p \in candidates |-> Correlation(frame, p)]
      maxCorrelation == SetMax({0} \cup {corr[p] : p \in candidates})
  IN  [period |-> IF maxCorrelation = 0 THEN minPeriodOf(sampleRate)
                  ELSE SetMin({p \in candidates : corr[p] = maxCorrelation}),
       correlation |-> maxCorrelation]

\* maxCorrelation > 0.3 at line 340.
correlationThreshold == 3000

RECURSIVE PeriodsFrom(_, _, _)
PeriodsFrom(audioData, sampleRate, start) ==
  IF start >= Len(audioData) - maxPeriodOf(sampleRate) THEN <<>>
  ELSE LET best == BestPeriod(Slice(audioData, start,
                                    start + maxPeriodOf(sampleRate)), sampleRate)
       IN  (IF best.correlation > correlationThreshold
            THEN <<best.period>> ELSE <<>>)
           \o PeriodsFrom(audioData, sampleRate,
                          start + frameSize25ms(sampleRate))

\* extractPeriods (lines 315-346).
extractPeriods(audioData, sampleRate) == PeriodsFrom(audioData, sampleRate, 0)

\* calculateJitter (lines 188-199).
calculateJitter(audioData, sampleRate) ==
  LET periods == extractPeriods(audioData, sampleRate)
      n == Len(periods)
      jitterSum == SumUpTo([i \in 1..(n - 1) |->
                     Round(1000 * Abs(periods[i + 1] - periods[i]), periods[i])],
                           n - 1)
  IN  IF n < 2 THEN Num(0) ELSE Num(Round(jitterSum, n - 1))

RECURSIVE AmplitudesFrom(_, _, _)
\* The frame maxima of lines 206-212.
AmplitudesFrom(audioData, size, i) ==
  IF i >= Len(audioData) - size THEN <<>>
  ELSE <<SetMax({0} \cup {Abs(audioData[j]) : j \in (i + 1)..(i + size)})>>
       \o AmplitudesFrom(audioData, size, i + size)

\* calculateShimmer without the test of line 218: a frame of silence makes
\* the next ratio a division by zero.
calculateShimmerUnguarded(audioData, sampleRate) ==
  LET amplitudes == AmplitudesFrom(audioData, frameSize25ms(sampleRate), 0)
      n == Len(amplitudes)
      shimmerSum == SumUpTo([i \in 1..(n - 1) |->
                      Round(1000 * Abs(amplitudes[i + 1] - amplitudes[i]),
                            Max(1, amplitudes[i]))], n - 1)
  IN  IF n < 2 THEN Num(0)
      ELSE IF \E i \in 1..(n - 1) : amplitudes[i] = 0 THEN NotFinite
      ELSE Num(Round(shimmerSum, n - 1))

\* calculateShimmer (lines 201-224).
calculateShimmer(audioData, sampleRate) ==
  LET amplitudes == AmplitudesFrom(audioData, frameSize25ms(sampleRate), 0)
      n == Len(amplitudes)
      shimmerSum == SumUpTo([i \in 1..(n - 1) |->
                      IF amplitudes[i] > 0
                      THEN Round(1000 * Abs(amplitudes[i + 1] - amplitudes[i]),
                                 amplitudes[i])
                      ELSE 0], n - 1)
  IN  IF n < 2 THEN Num(0) ELSE Num(Round(shimmerSum, n - 1))

\* calculateHarmonicity (lines 226-257) when fft does not throw.
calculateHarmonicity(audioData, sampleRate) ==
  LET spectrum == fft(Slice(audioData, 0, frameSize))
      L == Len(spectrum)
      low == {i \in 1..(L - 1) : 4 * i < L}
      maxMag == SetMax({0} \cup {spectrum[i + 1] : i \in low})
      maxBin == IF maxMag = 0 THEN 0
                ELSE SetMin({i \in low : spectrum[i + 1] = maxMag})
      harmonicEnergy == SumUpTo([harmonic \in {h \in 1..5 : maxBin * h < L} |->
                                   spectrum[maxBin * harmonic + 1]], 5)
      totalEnergy == SumUpTo(spectrum, L)
  IN  IF totalEnergy > 0 THEN Num(Round(1000 * harmonicEnergy, totalEnergy))
      ELSE Num(0)

\* calculateHNR (lines 259-262).
calculateHNR(audioData, sampleRate) ==
  Num(calculateHarmonicity(audioData, sampleRate).value * 20)

\* calculateF0Variation (lines 264-273). The reducer of line 270 has no
\* initial value, so the first frequency enters the sum as it is.
calculateF0Variation(audioData, sampleRate) ==
  LET periods == extractPeriods(audioData, sampleRate)
      n == Len(periods)
      f0s == [i \in 1..n |-> Round(sampleRate, periods[i])]
      mean == Round(SumUpTo(f0s, n), n)
      variance == Round(f0s[1] + SumUpTo([i \in 2..n |->
                                   (f0s[i] - mean) * (f0s[i] - mean)], n), n)
  IN  IF n < 2 THEN Num(0)
      ELSE Num(Round(100 * Sqrt(100 * variance), mean))

\* frequency of lines 281 and 298, in hertz.
BinFrequency(i, sampleRate, L) == Round(i * sampleRate, 2 * L)

\* calculateSpectralCentroid (lines 275-287) when fft does not throw.
calculateSpectralCentroid(audioData, sampleRate) ==
  LET spectrum == fft(audioData)
      L == Len(spectrum)
      weightedSum == SumUpTo([i \in 1..L |->
                       BinFrequency(i - 1, sampleRate, L) * spectrum[i]], L)
      magnitudeSum == SumUpTo(spectrum, L)
  IN  IF magnitudeSum > 0 THEN Num(Round(weightedSum, magnitudeSum))
      ELSE Num(0)

\* spectrum.reduce((a, b) => a + b) at line 291 throws a TypeError on an
\* empty spectrum.
calculateSpectralRolloffThrows(audioData) ==
  fftThrows(audioData) \/ Len(audioData) \div 2 = 0

\* calculateSpectralRolloff (lines 289-303) when it does not throw.
calculateSpectralRolloff(audioData, sampleRate) ==
  LET spectrum == fft(audioData)
      L == Len(spectrum)
      totalEnergy == SumUpTo(spectrum, L)
      reached == {i \in 1..L : 100 * SumUpTo(spectrum, i) >= 85 * totalEnergy}
  IN  IF reached # {} THEN Num(BinFrequency(SetMin(reached) - 1, sampleRate, L))
      ELSE Num(sampleRate \div 2)

\* calculateZeroCrossingRate (lines 305-313).
calculateZeroCrossingRate(audioData) ==
  LET crossings == Cardinality({i \in 2..Len(audioData) :
                      (audioData[i] >= 0) # (audioData[i - 1] >= 0)})
  IN  IF Len(audioData) = 0 THEN NotFinite
      ELSE Num(Round(1000 * crossings, Len(audioData)))

\* extractFeatures (lines 46-91) on the decoded channel: the features are
\* computed in the order of lines 70-78 and the first exception ends the
\* call.
extractFeatures(audioData, sampleRate) ==
  IF fftThrows(Slice(audioData, 0, frameSize)) THEN Thrown("RangeError")
  ELSE IF fftThrows(audioData) THEN Thrown("RangeError")
  ELSE IF calculateSpectralRolloffThrows(audioData) THEN Thrown("TypeError")
  ELSE Returned(
         [mfcc |-> extractMFCC(audioData, sampleRate),
          jitter |-> calculateJitter(audioData, sampleRate),
          shimmer |-> calculateShimmer(audioData, sampleRate),
          harmonicity |-> calculateHarmonicity(audioData, sampleRate),
          hnr |-> calculateHNR(audioData, sampleRate),
          f0_variation |-> calculateF0Variation(audioData, sampleRate),
          spectral_centroid |-> calculateSpectralCentroid(audioData, sampleRate),
          spectral_rolloff |-> calculateSpectralRolloff(audioData, sampleRate),
          zero_crossing_rate |-> calculateZeroCrossingRate(audioData)])

\* ---- decoded buffers ----------------------------------------------------
\* The sample rate of the audio context that decodes the recording.
SampleRates == {8000}

SampleValues == {-100, 0, 50}

\* Every buffer of at most MaxSamples samples.
ShortBuffers == UNION {[1..n -> SampleValues] : n \in 0..MaxSamples}

\* The lengths around a whole number of 25 ms frames.
LongLengths ==
  {f * frameSize25ms(r) + d : f \in 1..MaxFrames, d \in 0..2, r \in SampleRates}

Silence(len) == [i \in 1..len |-> 0]

\* A pulse every period1 samples of height amp1 up to sample switch, then
\* every period2 samples of height amp2.
PulseTrain(len, switch, period1, amp1, period2, amp2) ==
  [i \in 1..len |->
     IF i - 1 < switch
     THEN (IF (i - 1) % period1 = 0 THEN amp1 ELSE 0)
     ELSE (IF (i - 1 - switch) % period2 = 0 THEN amp2 ELSE 0)]

PulseBuffers ==
  {PulseTrain(MaxFrames * frameSize25ms(r) + d, frameSize25ms(r), 20, 100, p, a) :
     d \in 1..2, p \in {20, 40}, a \in {50, 100}, r \in SampleRates}

AudioBuffers ==
  ShortBuffers \cup {Silence(len) : len \in LongLengths} \cup PulseBuffers

IsSilent(audioData) == \A i \in 1..Len(audioData) : audioData[i] = 0

InitVoice ==
  /\ SessionInit
  /\ arg \in [audioData : AudioBuffers, sampleRate : SampleRates]
  /\ ret = Unset

CalculateJitterCall ==
  /\ ret = Unset
  /\ ret' = [op |-> "calculateJitter",
             value |-> calculateJitter(arg.audioData, arg.sampleRate)]
  /\ UNCHANGED <<sessionVars, arg>>

CalculateShimmerCall ==
  /\ ret = Unset
  /\ ret' = [op |-> "calculateShimmer",
             value |-> calculateShimmer(arg.audioData, arg.sampleRate)]
  /\ UNCHANGED <<sessionVars, arg>>

ExtractFeaturesCall ==
  /\ ret = Unset
  /\ ret' = [op |-> "extractFeatures",
             value |-> extractFeatures(arg.audioData, arg.sampleRate)]
  /\ UNCHANGED <<sessionVars, arg>>

NextVoice ==
  \/ CalculateJitterCall
  \/ CalculateShimmerCall
  \/ ExtractFeaturesCall

SpecVoice == InitVoice /\ [][NextVoice]_vars

\* ------------------------------------------------------------------------
\* The posture extractor (PostureFeatureExtractor)
\* ------------------------------------------------------------------------
\* Coordinates are in hundredths of a pixel, angles in degrees and the
\* features in thousandths.

\* width and height of extractPoseKeypoints, in pixels.
poseSize == 224

\* The point at xPercent of the width and yPercent of the height.
PosePoint(xPercent, yPercent) == <<poseSize * xPercent, poseSize * yPercent>>

\* Mutation of extractPoseKeypoints: the left shoulder is located from the
\* image.
extractPoseKeypointsFromImage(imageTensor) ==
  [nose |-> PosePoint(50, 10),
   leftShoulder |-> PosePoint(35, 25 + imageTensor.edges \div 100),
   rightShoulder |-> PosePoint(65, 25),
   leftElbow |-> PosePoint(25, 40), rightElbow |-> PosePoint(75, 40),
   leftWrist |-> PosePoint(20, 55), rightWrist |-> PosePoint(80, 55),
   leftHip |-> PosePoint(40, 60), rightHip |-> PosePoint(60, 60),
   leftKnee |-> PosePoint(38, 80), rightKnee |-> PosePoint(62, 80),
   leftAnkle |-> PosePoint(36, 95), rightAnkle |-> PosePoint(64, 95)]

\* extractPoseKeypoints: the keypoints do not depend on the image tensor.
extractPoseKeypoints(imageTensor) ==
  [nose |-> PosePoint(50, 10),
   leftShoulder |-> PosePoint(35, 25), rightShoulder |-> PosePoint(65, 25),
   leftElbow |-> PosePoint(25, 40), rightElbow |-> PosePoint(75, 40),
   leftWrist |-> PosePoint(20, 55), rightWrist |-> PosePoint(80, 55),
   leftHip |-> PosePoint(40, 60), rightHip |-> PosePoint(60, 60),
   leftKnee |-> PosePoint(38, 80), rightKnee |-> PosePoint(62, 80),
   leftAnkle |-> PosePoint(36, 95), rightAnkle |-> PosePoint(64, 95)]

\* Math.acos of a cosine in thousandths, in degrees (the inverse of
\* Bhaskara's approximation of the cosine).
AcosDegrees(c) ==
  LET a == (Sqrt((129600 * (1000 - Abs(c))) \div (4000 + Abs(c))) + 1) \div 2
  IN  IF c >= 0 THEN a ELSE 180 - a

\* calculateAngle: the angle at p2 between p1 and p3.
calculateAngle(p1, p2, p3) ==
  LET v1 == <<p1[1] - p2[1], p1[2] - p2[2]>>
      v2 == <<p3[1] - p2[1], p3[2] - p2[2]>>
      dot == v1[1] * v2[1] + v1[2] * v2[2]
      mag1 == Sqrt(v1[1] * v1[1] + v1[2] * v1[2])
      mag2 == Sqrt(v2[1] * v2[1] + v2[2] * v2[2])
      cos == Round(dot, Round(mag1 * mag2, 1000))
  IN  AcosDegrees(Max(-1000, Min(1000, cos)))

\* calculateDistance, in hundredths of a pixel.
calculateDistance(p1, p2) ==
  Sqrt((p1[1] - p2[1]) * (p1[1] - p2[1]) + (p1[2] - p2[2]) * (p1[2] - p2[2]))

\* The middle of two points.
Midpoint(p, q) == <<(p[1] + q[1]) \div 2, (p[2] + q[2]) \div 2>>

\* pointToLineDistance, in hundredths of a pixel; the coefficients of the
\* line are taken in pixels.
pointToLineDistance(point, lineStart, lineEnd) ==
  LET A == (lineEnd[2] - lineStart[2]) \div 100
      B == (lineStart[1] - lineEnd[1]) \div 100
      C == (lineEnd[1] \div 100) * lineStart[2] - (lineStart[1] \div 100) * lineEnd[2]
  IN  Round(Abs(A * point[1] + B * point[2] + C), Sqrt(A * A + B * B))

\* calculateSpinalDeviation of three spine points.
calculateSpinalDeviation(spinePoints) ==
  IF Len(spinePoints) < 3 THEN 0
  ELSE LET maxDeviation ==
             SetMax({0} \cup {pointToLineDistance(spinePoints[i], spinePoints[1],
                                                  spinePoints[Len(spinePoints)]) :
                                i \in 2..(Len(spinePoints) - 1)})
       IN  Round(1000 * maxDeviation, 100 * poseSize)

\* calculateRigidityIndex. The reducer of the variance has no initial value,
\* so the first angle enters the sum as it is.
calculateRigidityIndex(angles) ==
  LET n == Len(angles)
      mean == Round(10 * SumUpTo(angles, n), n)
      variance == Round(1000 * angles[1]
                        + 10 * SumUpTo([i \in 2..n |->
                                 (10 * angles[i] - mean) * (10 * angles[i] - mean)], n),
                        n)
  IN  1000 - Round(variance, 1000)

\* The gaitParameters of calculateClinicalFeatures from three Math.random()
\* values.
GaitParameters(rands) ==
  [stepLength |-> 500 + Round(rands[1] * 3, 10),
   cadence |-> 100000 + rands[2] * 20,
   swingTime |-> 300 + Round(rands[3], 10)]

\* calculateClinicalFeatures; rands are the values of its three
\* Math.random() calls.
calculateClinicalFeatures(keypoints, rands) ==
  LET neckAngle == calculateAngle(keypoints.nose, keypoints.leftShoulder,
                                  keypoints.rightShoulder)
      shoulderHeightDiff == Abs(keypoints.leftShoulder[2] - keypoints.rightShoulder[2])
      spinePoints == <<keypoints.nose,
                       Midpoint(keypoints.leftShoulder, keypoints.rightShoulder),
                       Midpoint(keypoints.leftHip, keypoints.rightHip)>>
      leftArmAngle == calculateAngle(keypoints.leftShoulder, keypoints.leftElbow,
                                     keypoints.leftWrist)
      rightArmAngle == calculateAngle(keypoints.rightShoulder, keypoints.rightElbow,
                                      keypoints.rightWrist)
      jointAngles == <<leftArmAngle, rightArmAngle,
                       calculateAngle(keypoints.leftHip, keypoints.leftKnee,
                                      keypoints.leftAnkle),
                       calculateAngle(keypoints.rightHip, keypoints.rightKnee,
                                      keypoints.rightAnkle)>>
      centerOfMass == Midpoint(keypoints.leftHip, keypoints.rightHip)
      supportBase == Midpoint(keypoints.leftAnkle, keypoints.rightAnkle)
  IN  [forwardHeadPosture |-> Round(1000 * Abs(neckAngle - 90), 90),
       shoulderAsymmetry |-> Round(1000 * shoulderHeightDiff, 100 * poseSize),
       spinalCurvature |-> calculateSpinalDeviation(spinePoints),
       armSwingAsymmetry |-> Round(1000 * Abs(leftArmAngle - rightArmAngle), 180),
       bodyRigidity |-> calculateRigidityIndex(jointAngles),
       balanceIndex |-> Round(1000 * calculateDistance(centerOfMass, supportBase),
                              100 * poseSize),
       gaitParameters |-> GaitParameters(rands)]

\* extractFeatures of the posture extractor once preprocessImage resolved.
PostureFeatures(image, rands) ==
  calculateClinicalFeatures(extractPoseKeypoints(image), rands)

\* ---- two extractions of the same image -----------------------------------
PostureImages == {image \in Images : image.decodable}

InitPosture ==
  /\ SessionInit
  /\ arg \in PostureImages
  /\ ret = Unset

\* One more extractFeatures call on the image, up to two.
PostureExtractCall ==
  \E rands \in RandSamples \X RandSamples \X RandSamples :
    /\ IF ret = Unset THEN TRUE ELSE Len(ret.values) < 2
    /\ ret' = [values |-> (IF ret = Unset THEN <<>> ELSE ret.values)
                            \o <<PostureFeatures(arg, rands)>>]
    /\ UNCHANGED <<sessionVars, arg>>

NextPosture == PostureExtractCall

SpecPosture == InitPosture /\ [][NextPosture]_vars

\* ------------------------------------------------------------------------
\* Tensors of the extractors (tf.memory().numTensors)
\*
\* ret.numTensors counts the live tensors: every tensor-returning call adds
\* one, dispose() removes one, tf.tidy removes what its callback allocated.
\* ------------------------------------------------------------------------
MaxLiveTensors == 3

\* The tensors preprocessImage creates: each call of the chain returns a new
\* tensor, and the promise resolves with the last one.
preprocessImage == <<"fromPixels", "toFloat", "div", "expandDims">>

\* tf.tidy(fn): the tensors allocated while fn ran are disposed when it
\* returns a plain object; the live count is what it was.
tidy(numTensors) == numTensors

ExtractOps == {"spiral.extractFeatures", "posture.extractFeatures"}
PredictOps == {"voice.predict", "posture.predict"}
ExtractorOf(op) == IF op = "voice.predict" THEN "voice" ELSE "posture"

TensorCalls ==
  [op : ExtractOps, image : Images] \cup [op : PredictOps, model : {"null", "fallback", "remote"}]

InitTensors ==
  /\ SessionInit
  /\ arg \in TensorCalls
  /\ \E n \in 0..MaxLiveTensors : ret = [pc |-> "called", numTensors |-> n, before |-> n]

\* img.onload of preprocessImage fires and the chain of tensor calls runs.
PreprocessImageResolves ==
  /\ arg.op \in ExtractOps
  /\ ret.pc = "called"
  /\ arg.image.decodable
  /\ ret' = [ret EXCEPT !.pc = "preprocessed", !.numTensors = @ + Len(preprocessImage)]
  /\ UNCHANGED <<sessionVars, arg>>

\* extractFeatures of the spiral extractor after its first await: tf.tidy,
\* imageTensor.dispose(), then the await of analyzeImagePattern.
SpiralExtractTidy ==
  /\ arg.op = "spiral.extractFeatures"
  /\ ret.pc = "preprocessed"
  /\ ret' = [ret EXCEPT !.pc = "pattern", !.numTensors = tidy(@) - 1]
  /\ UNCHANGED <<sessionVars, arg>>

\* analyzeImagePattern resolves and extractFeatures returns the five indices.
SpiralExtractReturns ==
  /\ arg.op = "spiral.extractFeatures"
  /\ ret.pc = "pattern"
  /\ ret' = [ret EXCEPT !.pc = "returned"]
  /\ UNCHANGED <<sessionVars, arg>>

\* extractFeatures of the posture extractor after preprocessImage: keypoints,
\* clinical features, imageTensor.dispose(), return.
PostureExtractReturns ==
  /\ arg.op = "posture.extractFeatures"
  /\ ret.pc = "preprocessed"
  /\ ret' = [ret EXCEPT !.pc = "returned", !.numTensors = @ - 1]
  /\ UNCHANGED <<sessionVars, arg>>

\* predict of the voice or posture extractor up to its await: the model
\* check, tf.tensor2d, model.predict.
PredictCall ==
  /\ arg.op \in PredictOps
  /\ ret.pc = "called"
  /\ \E accepts \in ModelAccepts(ExtractorOf(arg.op), arg.model) :
       ret' = IF arg.model = "null"
              THEN [ret EXCEPT !.pc = "thrown"]
              ELSE IF accepts
              THEN [ret EXCEPT !.pc = "data", !.numTensors = @ + 2]
              ELSE [ret EXCEPT !.pc = "thrown", !.numTensors = @ + 1]
  /\ UNCHANGED <<sessionVars, arg>>

\* prediction.data() resolves: featureVector.dispose(), prediction.dispose(),
\* return.
PredictReturns ==
  /\ arg.op \in PredictOps
  /\ ret.pc = "data"
  /\ ret' = [ret EXCEPT !.pc = "returned", !.numTensors = @ - 2]
  /\ UNCHANGED <<sessionVars, arg>>

NextTensors ==
  \/ PreprocessImageResolves
  \/ SpiralExtractTidy
  \/ SpiralExtractReturns
  \/ PostureExtractReturns
  \/ PredictCall
  \/ PredictReturns

SpecTensors == InitTensors /\ [][NextTensors]_vars

\* ------------------------------------------------------------------------
\* The assessment store under direct calls of the service (index.ts)
\*
\* Submissions (the process operations), requests (getAssessmentData) and
\* resets (clearAssessmentData) in any order. ret remembers how many
\* operations had been started when the store was last cleared.
\* ------------------------------------------------------------------------
InitStore ==
  /\ SessionInit
  /\ arg = Unset
  /\ ret = Unset

\* A caller that is no page handler starts the process operation of m.
SubmitCall(m, input) ==
  /\ ProcessCall(m, input)
  /\ UNCHANGED analyzing

\* A caller asks for the assessment data (lines 151-192).
GetAssessmentDataCall ==
  /\ assessmentData' = getAssessmentData(assessmentData, enhancedModelsLoaded)
  /\ UNCHANGED <<enhancedModelsLoaded, model, initState, modelsLoaded,
                 contextData, calls, promise, analyzing, ncalls, nresets, page,
                 arg, ret>>

\* A caller clears the store (lines 223-225).
ClearAssessmentDataCall ==
  /\ nresets < MaxResets
  /\ assessmentData' = clearAssessmentData(assessmentData)
  /\ nresets' = nresets + 1
  /\ ret' = [startedBefore |-> ncalls]
  /\ UNCHANGED <<enhancedModelsLoaded, model, initState, modelsLoaded,
                 contextData, calls, promise, analyzing, ncalls, page, arg>>

NextStore ==
  \/ MountProvider
  \/ \E e \in Extractors : loadModel(e)
  \/ initializeModels
  \/ \E m \in Modalities : \E input \in Inputs(m) : SubmitCall(m, input)
  \/ SpiralImageLoaded
  \/ SpiralFinish
  \/ VoiceDecoded
  \/ VoiceFinish
  \/ PostureImageLoaded
  \/ PostureFinish
  \/ SymptomsFinish
  \/ GetAssessmentDataCall
  \/ ClearAssessmentDataCall

SpecStore == InitStore /\ [][NextStore]_vars

\* ------------------------------------------------------------------------
\* The spiral tab of the Assessment page (Assessment.tsx)
\*
\* arg holds the page's spiralImage, ret its spiralAnalyzed flag; the
\* analyzingSpiral flag is analyzing["spiral"].
\* ------------------------------------------------------------------------
InitSpiralTab ==
  /\ SessionInit
  /\ arg = [spiralImage |-> None]
  /\ ret = [spiralAnalyzed |-> FALSE]

\* handleSpiralUpload: reader.onloadend fires. The upload control is
\* rendered only while no image is shown.
handleSpiralUpload(image) ==
  /\ arg.spiralImage = None
  /\ arg' = [spiralImage |-> image]
  /\ ret' = [spiralAnalyzed |-> FALSE]
  /\ UNCHANGED sessionVars

\* The Remove button, rendered while an image is shown and never disabled.
RemoveSpiralImage ==
  /\ arg.spiralImage # None
  /\ arg' = [spiralImage |-> None]
  /\ ret' = [spiralAnalyzed |-> FALSE]
  /\ UNCHANGED sessionVars

\* analyzeSpiralDrawing up to its await; the button is rendered while an
\* image is shown and disabled once the image is analyzed.
analyzeSpiralDrawing ==
  /\ arg.spiralImage # None
  /\ ~ret.spiralAnalyzed
  /\ AnalyzeClick("spiral", arg.spiralImage)

\* processSpiralDrawing returns to analyzeSpiralDrawing: the record is
\* stored, then setSpiralAnalyzed(true) and the finally block.
AnalyzeSpiralDrawingResumes ==
  \E c \in CallsAt("spiral", "pattern") :
    \E rand \in RandSamples :
      LET features == SpiralFeatures(c.input)
      IN  /\ model["spiral"] # "null"
          /\ assessmentData' = StoreRecord(assessmentData, "spiral", c.input, features,
                                           SpiralPredict(features, rand),
                                           enhancedModelsLoaded)
          /\ calls' = [calls EXCEPT !["spiral"] = @ (-) SetToBag({c})]
          /\ promise' = [promise EXCEPT !["spiral"] = "fulfilled"]
          /\ analyzing' = AfterFinally("spiral", c)
          /\ ret' = [spiralAnalyzed |-> TRUE]
          /\ UNCHANGED <<enhancedModelsLoaded, model, initState, modelsLoaded,
                         contextData, page, ncalls, nresets, arg>>

NextSpiralTab ==
  \/ MountProvider
  \/ \E e \in Extractors : loadModel(e)
  \/ initializeModels
  \/ \E image \in Images : handleSpiralUpload(image)
  \/ RemoveSpiralImage
  \/ analyzeSpiralDrawing
  \/ SpiralImageLoaded
  \/ AnalyzeSpiralDrawingResumes

SpecSpiralTab == InitSpiralTab /\ [][NextSpiralTab]_vars

\* ------------------------------------------------------------------------
\* ModelTrainer.trainModel (ModelTrainer.ts)
\*
\* arg is the sequence of the model types trainModel was called with, ret
\* the trainer: its isTraining field and, for each call, the await it is
\* suspended at or how it settled.
\* ------------------------------------------------------------------------
MaxTrainCalls == 3

ModelTypes == {"spiral", "voice", "posture"}

\* The awaits of trainModel, in order: prepareTrainingData, model.fit and
\* the data() of the two evaluation scalars.
trainingAwaits == <<"prepare", "fit", "testLoss", "testAccuracy">>

Executing(stage) == \E k \in DOMAIN trainingAwaits : trainingAwaits[k] = stage

\* The stage after the await that stage waits at resolved.
AfterAwait(stage) ==
  LET k == CHOOSE j \in DOMAIN trainingAwaits : trainingAwaits[j] = stage
  IN  IF k < Len(trainingAwaits) THEN trainingAwaits[k + 1] ELSE "model"

\* Mutation of RejectTraining: the guard sits inside the try block, so the
\* finally block of the rejected call clears isTraining.
RejectTrainingThroughFinally(trainer) ==
  [isTraining |-> FALSE, calls |-> Append(trainer.calls, "rejected")]

\* The trainer after a call found isTraining set and threw 'Training already
\* in progress' (lines 28-30, before the try block).
RejectTraining(trainer) ==
  [trainer EXCEPT !.calls = Append(@, "rejected")]

InitTrainer ==
  /\ SessionInit
  /\ arg = <<>>
  /\ ret = [isTraining |-> FALSE, calls |-> <<>>]

\* trainModel is called and runs up to its first await, or throws.
trainModel(type) ==
  /\ Len(arg) < MaxTrainCalls
  /\ arg' = Append(arg, type)
  /\ ret' = IF ret.isTraining
            THEN RejectTraining(ret)
            ELSE [isTraining |-> TRUE, calls |-> Append(ret.calls, trainingAwaits[1])]
  /\ UNCHANGED sessionVars

\* The await call i is suspended at settles: trainModel goes on to the next
\* await or returns the model, or the step threw (no training data, a
\* rejected promise) and the catch block returns null; the finally block
\* clears isTraining on both returns.
TrainModelResumes(i) ==
  /\ i \in DOMAIN ret.calls
  /\ Executing(ret.calls[i])
  /\ \E ok \in BOOLEAN :
       LET stage == IF ok THEN AfterAwait(ret.calls[i]) ELSE "null"
       IN  ret' = [isTraining |-> IF Executing(stage) THEN ret.isTraining ELSE FALSE,
                   calls |-> [ret.calls EXCEPT ![i] = stage]]
  /\ UNCHANGED <<sessionVars, arg>>

NextTrainer ==
  \/ \E type \in ModelTypes : trainModel(type)
  \/ \E i \in 1..MaxTrainCalls : TrainModelResumes(i)

SpecTrainer == InitTrainer /\ [][NextTrainer]_vars

\* ------------------------------------------------------------------------
\* Voice recording on the Assessment page (Assessment.tsx)
\*
\* arg counts the startRecording calls, ret holds the page's isRecording and
\* mediaRecorder, the calls waiting for getUserMedia, and every MediaRecorder
\* created: its state, the stop() calls made on it and its 10-second timer.
\* mediaRecorder is the index of the recorder the page holds, 0 for null.
\* ------------------------------------------------------------------------
MaxRecordings == 3

InitRecording ==
  /\ SessionInit
  /\ arg = 0
  /\ ret = [isRecording |-> FALSE, mediaRecorder |-> 0, pending |-> 0,
            recorders |-> <<>>]

\* MediaRecorder.stop() is called on recorder i.
StopRequested(recorders, i) ==
  [recorders EXCEPT ![i].state = "inactive", ![i].stops = @ + 1]

\* startRecording up to its await of getUserMedia; the Start button is
\* rendered while isRecording is false.
startRecording ==
  /\ ~ret.isRecording
  /\ arg < MaxRecordings
  /\ arg' = arg + 1
  /\ ret' = [ret EXCEPT !.pending = @ + 1]
  /\ UNCHANGED sessionVars

\* getUserMedia settles: the recorder is created and started and the timer
\* is armed (lines 117-153), or the catch block reports the error.
GetUserMediaSettles ==
  /\ ret.pending > 0
  /\ \E granted \in BOOLEAN :
       ret' = IF granted
              THEN [isRecording |-> TRUE,
                    mediaRecorder |-> Len(ret.recorders) + 1,
                    pending |-> ret.pending - 1,
                    recorders |-> Append(ret.recorders,
                                         [state |-> "recording", stops |-> 0,
                                          timer |-> "armed"])]
              ELSE [ret EXCEPT !.pending = @ - 1]
  /\ UNCHANGED <<sessionVars, arg>>

\* stopRecording: the Stop button is rendered while isRecording is true.
stopRecording ==
  /\ ret.isRecording
  /\ ret' = IF ret.mediaRecorder # 0
            THEN [ret EXCEPT !.recorders = StopRequested(@, ret.mediaRecorder),
                             !.isRecording = FALSE]
            ELSE ret
  /\ UNCHANGED <<sessionVars, arg>>

\* The 10-second timeout armed by startRecording for recorder i fires
\* (lines 149-154); nothing clears it earlier.
RecordingTimerFires(i) ==
  /\ i \in DOMAIN ret.recorders
  /\ ret.recorders[i].timer = "armed"
  /\ ret' = [ret EXCEPT !.recorders = [StopRequested(@, i) EXCEPT ![i].timer = "fired"],
                        !.isRecording = FALSE]
  /\ UNCHANGED <<sessionVars, arg>>

NextRecording ==
  \/ startRecording
  \/ GetUserMediaSettles
  \/ stopRecording
  \/ \E i \in 1..MaxRecordings : RecordingTimerFires(i)

SpecRecording == InitRecording /\ [][NextRecording]_vars

\* ------------------------------------------------------------------------
\* Properties
\* ------------------------------------------------------------------------
\* The modalities with a record in the store.
Present == {m \in Modalities : assessmentData[m] # None}

RECURSIVE SumOver(_, _)
\* The sum of field f of the results of the modalities in S.
SumOver(S, f) ==
  IF S = {} THEN 0
  ELSE LET m == CHOOSE x \in S : TRUE
       IN  assessmentData[m].result[f] + SumOver(S \ {m}, f)

\* q is total / n rounded to the nearest integer, halves up.
IsRoundedMean(q, total, n) == 2 * q * n - n <= 2 * total /\ 2 * total < 2 * q * n + n

\* What getAssessmentData returns in the current state.
Exposed == getAssessmentData(assessmentData, enhancedModelsLoaded)

WellFormed(r) ==
  /\ r.score \in 0..100
  /\ r.confidence \in 0..100
  /\ r.status \in Statuses

\* C1: for every non-empty set of results the status of the overall
\* assessment is at least as severe as the status of every result in the
\* set; a healthy spiral result with a severe voice result gives severe.
C1_OverallAtLeastAsSevere ==
  (ret # Unset /\ \E m \in Modalities : arg[m] # None) =>
    /\ ret.value # None
    /\ \A m \in Modalities :
         arg[m] # None => statusOrder(ret.value.status) >= statusOrder(arg[m].status)
    /\ (/\ arg["spiral"] # None /\ arg["spiral"].status = "healthy"
        /\ arg["voice"] # None /\ arg["voice"].status = "severe")
         => ret.value.status = "severe"

\* C1 witness: a healthy spiral and a severe voice result alone, whose mean
\* score is in the healthy band, aggregate to severe.
C1_Witness ==
  /\ ret # Unset
  /\ arg["spiral"] # None /\ arg["spiral"].status = "healthy"
  /\ arg["voice"] # None /\ arg["voice"].status = "severe"
  /\ arg["posture"] = None /\ arg["symptoms"] = None
  /\ OverallStatus(ret.value.score) = "healthy"
  /\ ret.value.status = "severe"

\* C2 as stated: whenever a result is present, the overall assessment that
\* getAssessmentData exposes has the rounded mean of the present scores as
\* score and the rounded mean of the present confidences as confidence.
C2_ExposedOverallIsMean ==
  LET present == Present
      n == Cardinality(present)
      overall == Exposed["overall"]
  IN  present # {} =>
        /\ overall # None
        /\ IsRoundedMean(overall.score, SumOver(present, "score"), n)
        /\ IsRoundedMean(overall.confidence, SumOver(present, "confidence"), n)

\* C2 amended: the exposed score is the rounded mean of the present scores;
\* the exposed confidence is the rounded mean q of the present confidences
\* when the enhanced models are not loaded, and min(98, q + 5) when they are.
C2_ExposedOverallIsAdjustedMean ==
  LET present == Present
      n == Cardinality(present)
      overall == Exposed["overall"]
      totalConfidence == SumOver(present, "confidence")
  IN  present # {} =>
        /\ overall # None
        /\ IsRoundedMean(overall.score, SumOver(present, "score"), n)
        /\ \E q \in {totalConfidence \div n, totalConfidence \div n + 1} :
             /\ IsRoundedMean(q, totalConfidence, n)
             /\ overall.confidence =
                  IF enhancedModelsLoaded THEN Min(98, q + 5) ELSE q

\* C2 witness: with the enhanced models loaded, two results are stored whose
\* confidences have a mean ending in one half, and the overall assessment
\* getAssessmentData exposes carries the adjusted confidence.
C2_Witness ==
  /\ enhancedModelsLoaded
  /\ Cardinality(Present) = 2
  /\ SumOver(Present, "confidence") % 2 = 1
  /\ Exposed["overall"] # None
  /\ ~IsRoundedMean(Exposed["overall"].confidence,
                    SumOver(Present, "confidence"), 2)

\* C3: when no modality result is present, calculateOverallAssessment
\* returns null and getAssessmentData returns a session without overall.
C3_EmptySessionHasNoOverall ==
  Present = {} =>
    /\ calculateOverallAssessment(ResultsOf(assessmentData)) = None
    /\ Exposed["overall"] = None

\* C3 witness: a record was stored and the session was reset; on the empty
\* session getAssessmentData exposes no overall assessment.
C3_Witness ==
  /\ nresets = 1
  /\ Present = {}
  /\ \E m \in Modalities : promise[m] = "fulfilled"
  /\ Exposed["overall"] = None

\* A call of m settles in the step.
Settles(m) == BagCardinality(calls'[m]) < BagCardinality(calls[m])

\* C4: no step of a process call other than its successful return changes
\* the store, so a call that fails leaves the record of its modality and of
\* every other modality as they were; and at the failure an overall
\* assessment is computed from the records that are present.
C4_FailedCallKeepsRecords ==
  [][/\ (calls' # calls /\ ~\E m \in Modalities :
                              Settles(m) /\ promise'[m] = "fulfilled")
          => assessmentData' = assessmentData
     /\ \A m \in Modalities :
          (Settles(m) /\ promise'[m] = "rejected") =>
            /\ assessmentData' = assessmentData
            /\ (\E k \in Modalities : assessmentData'[k] # None) =>
                 /\ getAssessmentData(assessmentData', enhancedModelsLoaded')["overall"] # None
                 /\ WellFormed(getAssessmentData(assessmentData', enhancedModelsLoaded')["overall"])
    ]_vars

\* C4 witness: the latest call of a modality failed, without any reset, and
\* the record of an earlier call of that modality is still stored.
C4_Witness ==
  /\ nresets = 0
  /\ \E m \in Modalities : promise[m] = "rejected" /\ assessmentData[m] # None

\* C5: every spiral analysis the page starts eventually settles, so the
\* analyzing flag of the spiral is eventually cleared (also for an image
\* that cannot be decoded).
C5_SpiralAnalysisSettles == analyzing["spiral"] ~> ~analyzing["spiral"]

\* The band of scores of a status.
ScoreBand(status) ==
  CASE status = "healthy" -> 85..95
    [] status = "mild" -> 65..80
    [] status = "moderate" -> 45..60
    [] status = "severe" -> 25..40

\* C6: the score of every result a classifier returns lies in the band of
\* the returned status, whatever the random jitter.
C6_ScoreInBandOfStatus ==
  ret # Unset => ret.value.score \in ScoreBand(ret.value.status)

\* C7: for every score 0..100 the aggregator's threshold step assigns the
\* status analyzeSymptomsData assigns, so the overall assessment of a single
\* result has the status of that result.
C7_SameThresholds ==
  ret # Unset =>
    /\ ret.thresholdStatus = ret.result.status
    /\ ret.overall.status = ret.result.status

\* The penalty as the claim states it.
ClaimedPenalty(d) ==
  LET age == ParseIntOrZero(d.age)
  IN  (CASE age > 60 -> 15 [] age > 50 /\ age <= 60 -> 10
         [] age > 40 /\ age <= 50 -> 5 [] OTHER -> 0)
      + 20 * (IF d.familyHistory THEN 1 ELSE 0)
      + 3 * d.tremor + 4 * (d.stiffness + d.balance)
      + 15 * (IF d.hasFreeze THEN 1 ELSE 0)
      + 10 * (IF d.hasSleepIssues THEN 1 ELSE 0)

ClaimedStatus(score) ==
  CASE score >= 80 -> "healthy"
    [] score >= 60 /\ score < 80 -> "mild"
    [] score >= 40 /\ score < 60 -> "moderate"
    [] OTHER -> "severe"

ExampleQuestionnaire == Questionnaire(<<"6", "5">>, TRUE, 8, 7, 6, TRUE, TRUE)

\* C8: analyzeSymptomsData returns score max(0, 100 - P) for the penalty P
\* of the claim and the status of that score; the example questionnaire has
\* penalty 136, score 0 and status severe.
C8_SymptomScoreFormula ==
  ret # Unset =>
    /\ ret.value.score = Max(0, 100 - ClaimedPenalty(arg))
    /\ ret.value.status = ClaimedStatus(ret.value.score)
    /\ arg = ExampleQuestionnaire =>
         /\ ClaimedPenalty(arg) = 136
         /\ ret.value.score = 0
         /\ ret.value.status = "severe"

\* C8 witness: the example questionnaire was analysed.
C8_Witness ==
  /\ arg = ExampleQuestionnaire
  /\ ret # Unset
  /\ ret.value.score = 0
  /\ ret.value.status = "severe"

\* C9: every stored result, the stored overall assessment and the overall
\* assessment getAssessmentData exposes have a score in 0..100, a confidence
\* in 0..100 and one of the four statuses.
C9_ResultsInRange ==
  LET overall == Exposed["overall"]
  IN  /\ \A m \in Modalities :
           assessmentData[m] # None => WellFormed(assessmentData[m].result)
      /\ assessmentData["overall"] # None => WellFormed(assessmentData["overall"])
      /\ overall # None => WellFormed(overall)

\* C9 witness: with the enhanced models loaded, a symptoms result is stored
\* and the overall assessment is exposed with their confidence at the cap
\* of 98.
C9_Witness ==
  /\ enhancedModelsLoaded
  /\ assessmentData["symptoms"] # None
  /\ assessmentData["symptoms"].result.confidence = 98
  /\ Exposed["overall"] # None
  /\ Exposed["overall"].confidence = 98

\* C10: immediately after a reset the session holds no spiral, voice,
\* posture or symptoms record and no overall assessment, and the provider
\* holds an empty session.
C10_ResetEmptiesSession ==
  [][nresets' # nresets =>
       /\ \A f \in Modalities \cup {"overall"} : assessmentData'[f] = None
       /\ contextData' = "empty"]_vars

\* C10 witness: a call had stored a record, and right after the reset the
\* session is empty.
C10_Witness ==
  /\ nresets = 1
  /\ contextData = "empty"
  /\ \E m \in Modalities : promise[m] = "fulfilled"
  /\ \A f \in Modalities \cup {"overall"} : assessmentData[f] = None

\* C12: at most one process call of a modality is in flight at any time.
C12_OneCallInFlightPerModality ==
  \A m \in Modalities : BagCardinality(calls[m]) <= 1

\* C11: once the second submission of a modality has succeeded, the record
\* of the modality holds the input and the features of that submission, a
\* result of the classifier on it and nothing else, and the records of the
\* other modalities are as they were.
C11_ResubmissionReplacesRecord ==
  (arg # Unset /\ promise[arg.m] = "fulfilled") =>
    LET record == assessmentData[arg.m]
    IN  /\ DOMAIN record = {"input", "result", "modelAccuracy", "features"}
        /\ record.input = arg.input
        /\ record.features = FeaturesOf(arg.m, arg.input)
        /\ record.modelAccuracy = ModelAccuracy(arg.m, enhancedModelsLoaded)
        /\ WellFormed(record.result)
        /\ arg.m = "spiral" =>
             \E rand \in RandSamples :
               record.result = SpiralPredict(SpiralFeatures(arg.input), rand)
        /\ arg.m = "symptoms" =>
             record.result.score = analyzeSymptomsData(arg.input, 0).score
        /\ \A k \in Modalities \ {arg.m} : assessmentData[k] = arg.earlier[k]

\* C11 witness: a spiral record of the clean image was stored; the shaky
\* image was submitted and its record has replaced the earlier one.
C11_Witness ==
  /\ arg # Unset
  /\ arg.m = "spiral"
  /\ arg.earlier["spiral"] # None
  /\ arg.earlier["voice"] # None
  /\ arg.input = ShakySpiral
  /\ promise["spiral"] = "fulfilled"
  /\ assessmentData["spiral"].input = ShakySpiral
  /\ assessmentData["spiral"].features # arg.earlier["spiral"].features
  /\ assessmentData["spiral"].result.status # arg.earlier["spiral"].result.status

\* C13: getAssessmentData leaves every modality record as it is; what it
\* writes are the derived fields overall, modelInfo and deviceInfo.
C13_ReadLeavesRecords ==
  LET exposed == Exposed
  IN  /\ \A m \in Modalities : exposed[m] = assessmentData[m]
      /\ DOMAIN exposed = Fields

\* C13 witness: two records are stored and getAssessmentData writes an
\* overall assessment that the store does not hold yet.
C13_Witness ==
  /\ Cardinality(Present) = 2
  /\ assessmentData["overall"] = None
  /\ Exposed["overall"] # None
  /\ Exposed["modelInfo"] # None

\* C14: a second request right after a request returns the overall
\* assessment, and the whole session, that the first one returned.
C14_AggregationIdempotent ==
  LET once == Exposed
      twice == getAssessmentData(once, enhancedModelsLoaded)
  IN  twice = once

\* C14 witness: with the enhanced models loaded, a request returns an
\* overall assessment whose adjusted confidence is below the cap of 98.
C14_Witness ==
  /\ enhancedModelsLoaded
  /\ Present # {}
  /\ Exposed["overall"] # None
  /\ Exposed["overall"].confidence < 98
  /\ ~IsRoundedMean(Exposed["overall"].confidence,
                    SumOver(Present, "confidence"), Cardinality(Present))

\* C15: the recommendation of an overall assessment is the text of its
\* final status, one of four texts that differ from status to status.
C15_RecommendationOfFinalStatus ==
  /\ \A a, b \in Statuses : a # b => Recommendation(a) # Recommendation(b)
  /\ (ret # Unset /\ ret.value # None) =>
       /\ ret.value.recommendation \in {Recommendation(a) : a \in Statuses}
       /\ ret.value.recommendation = Recommendation(ret.value.status)

\* C15 witness: the status of the mean score was raised to the worst
\* individual status, and the recommendation is the text of the raised one.
C15_Witness ==
  /\ ret # Unset
  /\ ret.value # None
  /\ OverallStatus(ret.value.score) = "mild"
  /\ ret.value.status = "moderate"
  /\ ret.value.recommendation = Recommendation("moderate")

\* C16: for a buffer with at least one sample, all of them zero,
\* calculateJitter returns 0 and calculateShimmer returns 0.
C16_SilenceHasNoJitterOrShimmer ==
  (/\ ret # Unset
   /\ ret.op \in {"calculateJitter", "calculateShimmer"}
   /\ Len(arg.audioData) > 0
   /\ IsSilent(arg.audioData))
    => ret.value = Num(0)

\* C16 witness: the shimmer of a silent buffer of two or more frames, where
\* the amplitude before each ratio is zero, came out as 0.
C16_Witness ==
  /\ ret # Unset
  /\ ret.op = "calculateShimmer"
  /\ IsSilent(arg.audioData)
  /\ Len(AmplitudesFrom(arg.audioData, frameSize25ms(arg.sampleRate), 0)) >= 2
  /\ ret.value = Num(0)

\* C17: extractFeatures returns a feature vector, and throws nothing, for
\* every decoded buffer that is empty or silent, of any length.
C17_SilenceGivesFeatures ==
  (/\ ret # Unset
   /\ ret.op = "extractFeatures"
   /\ IsSilent(arg.audioData))
    => ret.value.thrown = "none"

\* C19: two extractFeatures calls of the posture extractor on the same image
\* return the same feature vector in every field, gaitParameters included.
C19_PostureExtractionRepeats ==
  (ret # Unset /\ Len(ret.values) = 2) => ret.values[1] = ret.values[2]

\* C20: a process operation called while the model of its modality is not
\* loaded is rejected, and the record of the modality stays as it was.
C20_UnloadedModelRejects ==
  [][\A m \in Extractors :
       (arg # Unset /\ arg.modality = m /\ ~arg.loaded /\ Settles(m))
         => (promise'[m] = "rejected" /\ assessmentData'[m] = assessmentData[m])]_vars

\* The status and the confidence the claim gives for a mean risk, the risk
\* given as the sum of the five features in thousandths.
C21_Expected(riskSum) ==
  IF riskSum < 1500 THEN [status |-> "healthy", confidence |-> 85]
  ELSE IF riskSum < 2500 THEN [status |-> "healthy", confidence |-> 70]
  ELSE IF riskSum < 3500 THEN [status |-> "mild", confidence |-> 50]
  ELSE [status |-> "moderate", confidence |-> 40]

\* C21: the spiral classifier returns the status and the confidence of the
\* band of the mean risk r (r < 0.3 healthy 85, r < 0.5 healthy 70, r < 0.7
\* mild 50, otherwise moderate 40), and every feature vector with the same
\* mean risk gets the same status and confidence.
C21_StatusAndConfidenceFromRisk ==
  (ret # Unset /\ arg.classifier = "spiral") =>
    /\ ret.value.status = C21_Expected(SumSeq(arg.input)).status
    /\ ret.value.confidence = C21_Expected(SumSeq(arg.input)).confidence
    /\ \A other \in FeatureVectors :
         SumSeq(other) = SumSeq(arg.input) =>
           /\ SpiralPredict(other, arg.rand).status = ret.value.status
           /\ SpiralPredict(other, arg.rand).confidence = ret.value.confidence

\* C21 witness: a vector of unequal features with a mean risk of exactly
\* 0.7, whose tremor index alone is 0, was classified moderate with 40.
C21_Witness ==
  /\ ret # Unset
  /\ arg.classifier = "spiral"
  /\ arg.input = <<0, 500, 1000, 1000, 1000>>
  /\ ret.value.status = "moderate"
  /\ ret.value.confidence = 40

\* C22: when an extraction or classification call of an extractor has
\* returned or thrown, the number of live tensors is what it was before the
\* call.
C22_TensorsDisposedAfterCall ==
  ret.pc \in {"returned", "thrown"} => ret.numTensors = ret.before

\* C23: whenever an overall assessment is stored, it is the overall
\* assessment getAssessmentData computes from the records stored at that
\* moment.
C23_StoredOverallIsCurrent ==
  assessmentData["overall"] # None =>
    assessmentData["overall"] = Exposed["overall"]

\* C25: once clearAssessmentData has run, and as long as no process
\* operation has been started after it, the session holds no record: a call
\* that was in flight at the reset stores nothing.
C25_NoRecordFromBeforeReset ==
  (ret # Unset /\ ncalls = ret.startedBefore) => Present = {}

\* C24: whenever the page marks the spiral as analyzed, the stored spiral
\* record holds the image the page shows.
C24_AnalyzedRecordIsShownInput ==
  ret.spiralAnalyzed =>
    /\ assessmentData["spiral"] # None
    /\ assessmentData["spiral"].input = arg.spiralImage

\* The calls of trainModel that are executing.
C26_Running == {i \in DOMAIN ret.calls : Executing(ret.calls[i])}

\* C26: at most one trainModel call is executing, isTraining is true exactly
\* while one is, and a call made while isTraining is true is rejected and
\* leaves isTraining and the running call as they were.
C26_OneTrainingAtATime ==
  /\ [](/\ Cardinality(C26_Running) <= 1
        /\ ret.isTraining <=> C26_Running # {})
  /\ [][(Len(arg') > Len(arg) /\ ret.isTraining) =>
          /\ ret'.calls = Append(ret.calls, "rejected")
          /\ ret'.isTraining]_vars

\* C26 witness: the first call has returned a model, the second is
\* executing and the third was rejected.
C26_Witness ==
  /\ Len(ret.calls) = 3
  /\ ret.calls[1] = "model"
  /\ ret.calls[2] = "fit"
  /\ ret.calls[3] = "rejected"
  /\ ret.isTraining

\* The questionnaires in range: the age is a non-empty string of digits, the
\* sliders are within 0..10.
C27_InRange(d) ==
  /\ d.age # <<>>
  /\ \A i \in 1..Len(d.age) : \E k \in DOMAIN Digits : Digits[k] = d.age[i]
  /\ {d.tremor, d.stiffness, d.balance} \subseteq SliderValues

\* The questionnaires in range that differ from d by one raise: a slider one
\* notch up, a higher age, or one of the three flags switched to true.
C27_Raised(d) ==
  {e \in {[d EXCEPT !.tremor = @ + 1], [d EXCEPT !.stiffness = @ + 1],
          [d EXCEPT !.balance = @ + 1], [d EXCEPT !.familyHistory = TRUE],
          [d EXCEPT !.hasFreeze = TRUE], [d EXCEPT !.hasSleepIssues = TRUE]}
          \cup {[d EXCEPT !.age = a] : a \in AgeStrings} :
     /\ e # d
     /\ C27_InRange(e)
     /\ ParseIntOrZero(e.age) >= ParseIntOrZero(d.age)}

\* C27: for a questionnaire in range, no single raise of tremor, stiffness,
\* balance or age, and no switch of familyHistory, hasFreeze or
\* hasSleepIssues to true, gives a higher score or a less severe status than
\* the one analyzeSymptomsData returned.
C27_ScoreMonotoneInRisk ==
  (ret # Unset /\ C27_InRange(arg)) =>
    \A e \in C27_Raised(arg) : \A rand \in RandSamples :
      LET raised == analyzeSymptomsData(e, rand)
      IN  /\ raised.score <= ret.value.score
          /\ statusOrder(raised.status) >= statusOrder(ret.value.status)

\* C27 witness: a questionnaire scored 80 and healthy, of which a raise by
\* one year of age is scored lower and mild.
C27_Witness ==
  /\ ret # Unset
  /\ C27_InRange(arg)
  /\ arg.age = <<"5", "0">>
  /\ ret.value.score = 80
  /\ ret.value.status = "healthy"
  /\ \E e \in C27_Raised(arg) :
       /\ e.age = <<"5", "1">>
       /\ analyzeSymptomsData(e, 0).status = "mild"

\* C28: once initializeModels has returned true (modelsLoaded), every
\* extractor holds a model, so no call settling from then on is rejected by
\* the 'Model not loaded' guard of predict; and enhancedModelsLoaded is true
\* only if all three remote models loaded.
C28_LoadedMeansModelsPresent ==
  /\ [](modelsLoaded => \A e \in Extractors : model[e] # "null")
  /\ [](enhancedModelsLoaded => \A e \in Extractors : model[e] = "remote")
  /\ [][\A e \in Extractors :
          (modelsLoaded /\ Settles(e) /\ promise'[e] = "rejected")
            => model[e] # "null"]_vars

\* C28 witness: the models are reported loaded with the fallback posture
\* network in place and the enhanced flag off, a spiral call has been
\* fulfilled, and a posture call was rejected by the network, not by the
\* guard.
C28_Witness ==
  /\ modelsLoaded
  /\ ~enhancedModelsLoaded
  /\ model["posture"] = "fallback"
  /\ promise["spiral"] = "fulfilled"
  /\ promise["posture"] = "rejected"

\* C29: stop is requested at most once on the MediaRecorder of every
\* recording, and once it has been requested on the recorder the page holds,
\* isRecording is false.
C29_StopRequestedOnce ==
  /\ \A i \in DOMAIN ret.recorders : ret.recorders[i].stops <= 1
  /\ (ret.mediaRecorder # 0 /\ ret.recorders[ret.mediaRecorder].stops > 0)
       => ~ret.isRecording

\* The six posture indices of a feature vector.
C30_Indices(features) ==
  <<features.forwardHeadPosture, features.shoulderAsymmetry,
    features.spinalCurvature, features.armSwingAsymmetry,
    features.bodyRigidity, features.balanceIndex>>

\* C30: the six posture indices extractFeatures returned for an image are
\* the six indices it returns for every other decodable image, whatever the
\* random values of the gait parameters.
C30_IndicesIgnoreImage ==
  ret # Unset =>
    \A k \in DOMAIN ret.values :
      \A other \in PostureImages \ {arg} :
        \A rands \in RandSamples \X RandSamples \X RandSamples :
          C30_Indices(PostureFeatures(other, rands)) = C30_Indices(ret.values[k])

\* C30 witness: the shaky image was extracted and returned the indices the
\* clean image gives, with a forward head posture of 0.5 and a rigidity
\* index above 0.9.
C30_Witness ==
  /\ ret # Unset
  /\ arg = ShakySpiral
  /\ C30_Indices(ret.values[1]) = C30_Indices(PostureFeatures(CleanSpiral, <<0, 0, 0>>))
  /\ ret.values[1].forwardHeadPosture = 500
  /\ ret.values[1].bodyRigidity > 900

====
